---- MODULE Spec2Model ----
(***************************************************************************)
(* A model of the workflow engine of layer (src/src/workflow_engine.py):   *)
(* the workflow store, the action registry, the scheduling gate, the       *)
(* expression and condition evaluators and the step loop of run.           *)
(*                                                                         *)
(* Python strings that the code inspects character by character are        *)
(* sequences of one-character strings; strings the code only compares or   *)
(* uses as keys (action names, workflow names, weekday codes) are atoms.   *)
(***************************************************************************)
EXTENDS Integers, Sequences, FiniteSets, TLC

VARIABLES
    file,       \* workflows.yaml: NoFile, or the document (name -> definition)
    example,    \* workflows.example.yaml: NoFile, or a document; never written
    actions,    \* WorkflowEngine.actions: name -> callable, a callable being
                \* what it returns when it does not raise
    now,        \* the wall clock, an index into Clock
    run,        \* per calling thread: the frame of its call of run()
    gate,       \* a call of _check_time_conditions: its arguments and result
    log,        \* the calls of the store operations so far, with what they returned
    writers,    \* per writing thread: its call of create_workflow or delete_workflow
    state,      \* PomodoroManager.state
    timer_task, \* PomodoroManager._timer_task: a task of tasks, or None
    tasks,      \* the tasks created for _run_timer, each with its position
    calls,      \* the calls of start, stop and skip, each with its position
    ready,      \* the event loop's queue of callbacks that are ready to run
    cond        \* a call of _evaluate_condition: its arguments, its split, its result

vars == <<file, example, actions, now, run, gate, log, writers, state, timer_task, tasks, calls, ready, cond>>

(***************************************************************************)
(* Strings                                                                 *)
(***************************************************************************)

\* The characters of the model in code-point order (Python compares strings
\* by code point).
Chars ==
    << " ", "!", "\"", "'", "+", ",", "-", ".", "0", "1", "2", "3", "4", "5", "6",
       "7", "8", "9", ":", "<", "=", ">", "A", "B", "C", "D", "E", "F", "G",
       "H", "I", "J", "K", "L", "M", "N", "O", "P", "Q", "R", "S", "T", "U",
       "V", "W", "X", "Y", "Z", "[", "\\", "]", "_", "a", "b", "c", "d", "e", "f",
       "g", "h", "i", "j", "k", "l", "m", "n", "o", "p", "q", "r", "s", "t",
       "u", "v", "w", "x", "y", "z", "{", "}" >>

Ord(c) == CHOOSE k \in 1..Len(Chars) : Chars[k] = c

Digits == <<"0", "1", "2", "3", "4", "5", "6", "7", "8", "9">>

Range(s) == { s[k] : k \in 1..Len(s) }

\* s < t for Python str: the first differing character decides, and a proper
\* prefix is smaller.
StrLess(s, t) ==
    \E k \in 1..Len(t) :
        /\ \A j \in 1..(k - 1) : j <= Len(s) /\ s[j] = t[j]
        /\ \/ k = Len(s) + 1
           \/ k <= Len(s) /\ Ord(s[k]) < Ord(t[k])

(***************************************************************************)
(* The clock and the scheduling gate                                       *)
(***************************************************************************)

\* datetime.now().strftime("%H:%M"): two digits, a colon, two digits
StrfHM(h, m) ==
    << Digits[(h \div 10) + 1], Digits[(h % 10) + 1], ":",
       Digits[(m \div 10) + 1], Digits[(m % 10) + 1] >>

NoReason == [why |-> "none"]

\* _check_time_conditions with the upper end of the window let in
\* (current_time > time_before in place of >=)
CheckTimeConditionsLate(time_after, time_before, days, t) ==
    LET current_time == StrfHM(t.h, t.m)
        current_day  == t.day
    IN  IF days # <<>> /\ current_day \notin Range(days)
        THEN [why |-> "not scheduled", day |-> current_day, only |-> days]
        ELSE IF time_after # <<>> /\ StrLess(current_time, time_after)
        THEN [why |-> "too early", after |-> time_after, now |-> current_time]
        ELSE IF time_before # <<>> /\ StrLess(time_before, current_time)
        THEN [why |-> "too late", before |-> time_before, now |-> current_time]
        ELSE NoReason

\* _check_time_conditions with the clock reading `t` (datetime.now(), read
\* once). None, the empty string and the empty list are all falsy.
CheckTimeConditions(time_after, time_before, days, t) ==
    LET current_time == StrfHM(t.h, t.m)
        current_day  == t.day
    IN  IF days # <<>> /\ current_day \notin Range(days)
        THEN [why |-> "not scheduled", day |-> current_day, only |-> days]
        ELSE IF time_after # <<>> /\ StrLess(current_time, time_after)
        THEN [why |-> "too early", after |-> time_after, now |-> current_time]
        ELSE IF time_before # <<>> /\ ~StrLess(current_time, time_before)
        THEN [why |-> "too late", before |-> time_before, now |-> current_time]
        ELSE NoReason

(***************************************************************************)
(* More of str                                                             *)
(***************************************************************************)

UpperCase ==
    << "A", "B", "C", "D", "E", "F", "G", "H", "I", "J", "K", "L", "M", "N",
       "O", "P", "Q", "R", "S", "T", "U", "V", "W", "X", "Y", "Z" >>

LowerCase ==
    << "a", "b", "c", "d", "e", "f", "g", "h", "i", "j", "k", "l", "m", "n",
       "o", "p", "q", "r", "s", "t", "u", "v", "w", "x", "y", "z" >>

\* str.lower()
Lower(s) ==
    [ k \in 1..Len(s) |->
        IF s[k] \in Range(UpperCase)
        THEN LowerCase[CHOOSE j \in 1..26 : UpperCase[j] = s[k]]
        ELSE s[k] ]

\* s[n:]
Drop(s, n) == SubSeq(s, n + 1, Len(s))

\* s[:n]
Take(s, n) == SubSeq(s, 1, n)

\* str.startswith / str.endswith
StartsWith(s, p) == Len(p) <= Len(s) /\ Take(s, Len(p)) = p

EndsWith(s, p) == Len(p) <= Len(s) /\ Drop(s, Len(s) - Len(p)) = p

\* str.strip(): the model's only whitespace character is the space
Strip(s) ==
    LET inked == { k \in 1..Len(s) : s[k] # " " }
    IN  IF inked = {} THEN <<>>
        ELSE LET first == CHOOSE k \in inked : \A j \in inked : k <= j
                 last  == CHOOSE k \in inked : \A j \in inked : j <= k
             IN  SubSeq(s, first, last)

\* the positions at which `sub` occurs in `s`
Occurrences(s, sub) ==
    { k \in 1..(Len(s) - Len(sub) + 1) : SubSeq(s, k, k + Len(sub) - 1) = sub }

\* sub in s
Contains(s, sub) == Occurrences(s, sub) # {}

\* s.split(sub, 1) when sub occurs in s: the text before and after the first
\* occurrence
Split1(s, sub) ==
    LET at == CHOOSE k \in Occurrences(s, sub) :
                  \A j \in Occurrences(s, sub) : k <= j
    IN  << Take(s, at - 1), Drop(s, at + Len(sub) - 1) >>

IsDigits(s) == s # <<>> /\ \A k \in 1..Len(s) : s[k] \in Range(Digits)

DigitVal(c) == (CHOOSE k \in 1..10 : Digits[k] = c) - 1

RECURSIVE ParseNat(_)
ParseNat(s) ==
    IF s = <<>> THEN 0
    ELSE 10 * ParseNat(Take(s, Len(s) - 1)) + DigitVal(s[Len(s)])

RECURSIVE Pow10(_)
Pow10(n) == IF n = 0 THEN 1 ELSE 10 * Pow10(n - 1)

(***************************************************************************)
(* Python values: str, int, float, bool, None, list and dict. A dict is    *)
(* the sequence of its <<key, value>> pairs in insertion order, the keys   *)
(* distinct.                                                               *)
(***************************************************************************)

PyStr(s) == [t |-> "str", s |-> s]
PyInt(n) == [t |-> "int", n |-> n]
\* a float that a decimal literal denotes: num / den, den a power of ten
PyFloat(num, den) == [t |-> "float", num |-> num, den |-> den]
PyBool(b) == [t |-> "bool", b |-> b]
PyDict(d) == [t |-> "dict", d |-> d]
PyList(l) == [t |-> "list", l |-> l]
PyNone == [t |-> "none"]

EmptyStr == PyStr(<<>>)

Keys(d) == { d[k][1] : k \in 1..Len(d) }

\* dict.get(key, default)
Get(d, key, default) ==
    IF key \in Keys(d)
    THEN d[CHOOSE k \in 1..Len(d) : d[k][1] = key][2]
    ELSE default

\* d[key] = value: a new key goes last, an old key keeps its place
Put(d, key, value) ==
    IF key \in Keys(d)
    THEN [ k \in 1..Len(d) |-> IF d[k][1] = key THEN <<key, value>> ELSE d[k] ]
    ELSE Append(d, <<key, value>>)

IsNumber(v) == v.t \in {"int", "float", "bool"}

\* a number as a fraction; bool is a subclass of int (True is 1)
Num(v) == IF v.t = "int" THEN v.n
          ELSE IF v.t = "float" THEN v.num
          ELSE IF v.b THEN 1 ELSE 0

Den(v) == IF v.t = "float" THEN v.den ELSE 1

\* left == right
RECURSIVE PyEq(_, _)
PyEq(a, b) ==
    IF IsNumber(a) /\ IsNumber(b) THEN Num(a) * Den(b) = Num(b) * Den(a)
    ELSE IF a.t # b.t THEN FALSE
    ELSE IF a.t = "dict"
    THEN /\ Keys(a.d) = Keys(b.d)
         /\ \A key \in Keys(a.d) : PyEq(Get(a.d, key, PyNone), Get(b.d, key, PyNone))
    ELSE IF a.t = "list"
    THEN /\ Len(a.l) = Len(b.l)
         /\ \A k \in 1..Len(a.l) : PyEq(a.l[k], b.l[k])
    ELSE a = b

\* bool(value)
Truthy(v) ==
    IF v.t = "str" THEN v.s # <<>>
    ELSE IF v.t = "dict" THEN v.d # <<>>
    ELSE IF v.t = "list" THEN v.l # <<>>
    ELSE IF v.t = "none" THEN FALSE
    ELSE Num(v) # 0

(***************************************************************************)
(* int(text) and float(text)                                               *)
(***************************************************************************)

Unsigned(s) == IF s # <<>> /\ s[1] \in {"+", "-"} THEN Drop(s, 1) ELSE s

Sign(s) == IF s # <<>> /\ s[1] = "-" THEN -1 ELSE 1

NoNumber == [ok |-> FALSE, num |-> 0, den |-> 1]

\* int() refuses a text of more digits than sys.int_info.default_max_str_digits
\* (4300 in CPython); the model keeps the refusal, with a limit of its size
IntMaxStrDigits == 4

\* the whole number a text of an optional sign and decimal digits stands for
ParseWhole(text) ==
    LET s == Strip(text)
    IN  IF IsDigits(Unsigned(s))
        THEN [ok |-> TRUE, num |-> Sign(s) * ParseNat(Unsigned(s)), den |-> 1]
        ELSE NoNumber

\* int(text): an optional sign and decimal digits, else ValueError; also
\* ValueError when the digits are more than the limit
ParseInt(text) ==
    IF Len(Unsigned(Strip(text))) > IntMaxStrDigits THEN NoNumber ELSE ParseWhole(text)

\* float(text) for the decimal literals: an optional sign, digits with at
\* most one point and a digit on one side of it at least, else ValueError
ParseFloat(text) ==
    LET s    == Strip(text)
        body == Unsigned(s)
        dots == Occurrences(body, <<".">>)
    IN  IF dots = {} THEN ParseWhole(s)
        ELSE IF Cardinality(dots) > 1 THEN NoNumber
        ELSE LET at == CHOOSE k \in dots : TRUE
                 ip == Take(body, at - 1)
                 fp == Drop(body, at)
             IN  IF /\ ip \o fp # <<>>
                    /\ \A k \in 1..Len(ip) : ip[k] \in Range(Digits)
                    /\ \A k \in 1..Len(fp) : fp[k] \in Range(Digits)
                 THEN [ok  |-> TRUE,
                       num |-> Sign(s) * (ParseNat(ip) * Pow10(Len(fp)) + ParseNat(fp)),
                       den |-> Pow10(Len(fp))]
                 ELSE NoNumber

\* float(value): ValueError for a str that is no number, TypeError for a
\* dict or None
ToFloat(v) ==
    IF v.t = "str" THEN ParseFloat(v.s)
    ELSE IF IsNumber(v) THEN [ok |-> TRUE, num |-> Num(v), den |-> Den(v)]
    ELSE NoNumber

(***************************************************************************)
(* str(value) and repr(value)                                              *)
(***************************************************************************)

RECURSIVE NatToStr(_)
NatToStr(n) ==
    IF n < 10 THEN <<Digits[n + 1]>>
    ELSE NatToStr(n \div 10) \o <<Digits[(n % 10) + 1]>>

IntToStr(n) == IF n < 0 THEN <<"-">> \o NatToStr(-n) ELSE NatToStr(n)

Abs(n) == IF n < 0 THEN -n ELSE n

\* float() refuses an int beyond sys.float_info.max (about 1.8e308) with
\* OverflowError; the model keeps the refusal, with a limit of its size
FloatMax == 999

\* float(value) raises OverflowError: an int too large to convert to float
CastOverflows(v) == v.t = "int" /\ Abs(v.n) > FloatMax

RECURSIVE StripZeros(_)
StripZeros(s) ==
    IF Len(s) > 1 /\ s[Len(s)] = "0" THEN StripZeros(Take(s, Len(s) - 1)) ELSE s

RECURSIVE ZeroPad(_, _)
ZeroPad(s, width) == IF Len(s) >= width THEN s ELSE ZeroPad(<<"0">> \o s, width)

\* the number of digits after the point: den is 10 to that power
RECURSIVE Log10(_)
Log10(den) == IF den <= 1 THEN 0 ELSE 1 + Log10(den \div 10)

\* repr of a float in positional notation: the shortest digits, one at least
\* after the point
FloatToStr(num, den) ==
    (IF num < 0 THEN <<"-">> ELSE <<>>)
        \o NatToStr(Abs(num) \div den) \o <<".">>
        \o StripZeros(ZeroPad(NatToStr(Abs(num) % den), IF den = 1 THEN 1 ELSE Log10(den)))

RECURSIVE EscapeQuotes(_)
EscapeQuotes(s) ==
    IF s = <<>> THEN <<>>
    ELSE (IF Head(s) \in {"'", "\\"} THEN <<"\\", Head(s)>> ELSE <<Head(s)>>)
             \o EscapeQuotes(Tail(s))

\* repr of a str: single quotes, double quotes when the text holds a single
\* quote and no double quote
StrRepr(s) ==
    IF "'" \in Range(s) /\ "\"" \notin Range(s)
    THEN <<"\"">> \o [ k \in 1..Len(s) |-> s[k] ] \o <<"\"">>
    ELSE <<"'">> \o EscapeQuotes(s) \o <<"'">>

RECURSIVE JoinStrs(_, _)
JoinStrs(sep, parts) ==
    IF parts = <<>> THEN <<>>
    ELSE IF Len(parts) = 1 THEN parts[1]
    ELSE parts[1] \o sep \o JoinStrs(sep, Tail(parts))

RECURSIVE PyRepr(_)
PyRepr(v) ==
    IF v.t = "str" THEN StrRepr(v.s)
    ELSE IF v.t = "int" THEN IntToStr(v.n)
    ELSE IF v.t = "float" THEN FloatToStr(v.num, v.den)
    ELSE IF v.t = "bool" THEN IF v.b THEN <<"T", "r", "u", "e">> ELSE <<"F", "a", "l", "s", "e">>
    ELSE IF v.t = "none" THEN <<"N", "o", "n", "e">>
    ELSE IF v.t = "list"
    THEN <<"[">> \o JoinStrs(<<",", " ">>, [ k \in 1..Len(v.l) |-> PyRepr(v.l[k]) ]) \o <<"]">>
    ELSE <<"{">>
             \o JoinStrs(<<",", " ">>,
                    [ k \in 1..Len(v.d) |->
                        StrRepr(v.d[k][1]) \o <<":", " ">> \o PyRepr(v.d[k][2]) ])
             \o <<"}">>

\* str(value)
PyStrOf(v) == IF v.t = "str" THEN v.s ELSE PyRepr(v)

(***************************************************************************)
(* The expression evaluator                                                *)
(***************************************************************************)

S_timestamp == <<"t", "i", "m", "e", "s", "t", "a", "m", "p">>
S_date      == <<"d", "a", "t", "e">>
S_time      == <<"t", "i", "m", "e">>
S_input     == <<"i", "n", "p", "u", "t", ".">>
S_steps     == <<"s", "t", "e", "p", "s", "[">>
S_true      == <<"t", "r", "u", "e">>
S_false     == <<"f", "a", "l", "s", "e">>

\* strftime("%H:%M:%S")
StrfHMS(t) ==
    StrfHM(t.h, t.m) \o <<":", Digits[(t.s \div 10) + 1], Digits[(t.s % 10) + 1]>>

\* re.match(r"steps\[(\d+)\]", expr): the position of the closing bracket,
\* 0 when the text does not start that way
StepsIndexEnd(expr) ==
    IF ~StartsWith(expr, S_steps) \/ Occurrences(expr, <<"]">>) = {} THEN 0
    ELSE LET close == CHOOSE k \in Occurrences(expr, <<"]">>) :
                          \A j \in Occurrences(expr, <<"]">>) : k <= j
         IN  IF IsDigits(SubSeq(expr, Len(S_steps) + 1, close - 1))
             THEN close ELSE 0

StepsIndex(expr) == ParseNat(SubSeq(expr, Len(S_steps) + 1, StepsIndexEnd(expr) - 1))

\* the evaluation did not return: int(steps_match.group(1)) raised ValueError
Raised == [t |-> "raised"]

\* int(steps_match.group(1)) raises: the index has more digits than int() takes
IndexRaises(expr) == StepsIndexEnd(expr) - 1 - Len(S_steps) > IntMaxStrDigits

\* _evaluate_expression(expr, context), the clock reading `t`
EvaluateExpression(expr0, context, t) ==
    LET expr  == Strip(expr0)
        close == StepsIndexEnd(expr)
        steps == context.steps
    IN  IF expr = S_timestamp THEN PyStr(t.date \o <<" ">> \o StrfHMS(t))
        ELSE IF expr = S_date THEN PyStr(t.date)
        ELSE IF expr = S_time THEN PyStr(StrfHMS(t))
        ELSE IF StartsWith(expr, S_input)
        THEN Get(context.input, Drop(expr, 6), EmptyStr)
        ELSE IF close > 0 /\ Len(expr) >= close + 2 /\ expr[close + 1] = "."
        THEN \* steps[n].field
             IF IndexRaises(expr) THEN Raised
             ELSE IF StepsIndex(expr) < Len(steps)
             THEN Get(steps[StepsIndex(expr) + 1], Drop(expr, close + 1), EmptyStr)
             ELSE EmptyStr
        ELSE IF close > 0 /\ Len(expr) = close
        THEN \* steps[n]
             IF IndexRaises(expr) THEN Raised
             ELSE IF StepsIndex(expr) < Len(steps)
             THEN PyDict(steps[StepsIndex(expr) + 1])
             ELSE PyDict(<<>>)
        ELSE EmptyStr

(***************************************************************************)
(* Variable substitution                                                   *)
(***************************************************************************)

Min(S) == CHOOSE x \in S : \A y \in S : x <= y

\* the first position at or after `from` that holds no space
SkipSpaces(s, from) ==
    Min({ k \in from..Len(s) : s[k] # " " } \cup {Len(s) + 1})

\* The pattern \{\{\s*(.+?)\s*\}\} tried at position p, where "{{" stands.
\* The leading \s* is greedy and the group lazy: the group starts at the
\* first character that is no space and the match ends with the first "}}"
\* that leaves the group a character; when there is none and spaces only
\* stand before a "}}", the group is the last of these spaces.
\* <<start of the group, end of the group, end of the match>>, or <<>>.
MatchAt(s, p) ==
    LET g      == SkipSpaces(s, p + 2)
        closes == { j \in Occurrences(s, <<"}", "}">>) : j >= g + 1 }
    IN  IF closes # {}
        THEN LET j == Min(closes)
                 e == Min({ k \in (g + 1)..j : \A x \in k..(j - 1) : s[x] = " " })
             IN  <<g, e - 1, j + 1>>
        ELSE IF g > p + 2 /\ g \in Occurrences(s, <<"}", "}">>)
        THEN <<g - 1, g - 1, g + 1>>
        ELSE <<>>

\* a replace() without the try: an evaluation that raises ends the whole
\* substitution, and what was substituted so far is lost
RECURSIVE SubstituteStrHard(_, _, _)
SubstituteStrHard(s, context, t) ==
    LET starts == { p \in Occurrences(s, <<"{", "{">>) : MatchAt(s, p) # <<>> }
    IN  IF starts = {} THEN s
        ELSE LET p == Min(starts)
                 m == MatchAt(s, p)
                 value == EvaluateExpression(SubSeq(s, m[1], m[2]), context, t)
             IN  IF value = Raised THEN <<>>
                 ELSE Take(s, p - 1) \o PyStrOf(value)
                          \o SubstituteStrHard(Drop(s, m[3]), context, t)

\* re.sub(pattern, replace, value): the matches from left to right, none
\* overlapping another; replace() returns str() of the expression's value,
\* and match.group(0), the text of the match, when the evaluation raises
RECURSIVE SubstituteStr(_, _, _)
SubstituteStr(s, context, t) ==
    LET starts == { p \in Occurrences(s, <<"{", "{">>) : MatchAt(s, p) # <<>> }
    IN  IF starts = {} THEN s
        ELSE LET p == Min(starts)
                 m == MatchAt(s, p)
                 value == EvaluateExpression(SubSeq(s, m[1], m[2]), context, t)
             IN  Take(s, p - 1)
                     \o (IF value = Raised THEN SubSeq(s, p, m[3]) ELSE PyStrOf(value))
                     \o SubstituteStr(Drop(s, m[3]), context, t)

\* _substitute_variables(value, context), the clock reading `t`
RECURSIVE SubstituteVariables(_, _, _)
SubstituteVariables(value, context, t) ==
    IF value.t = "str" THEN PyStr(SubstituteStr(value.s, context, t))
    ELSE IF value.t = "dict"
    THEN PyDict([ k \in 1..Len(value.d) |->
                    <<value.d[k][1], SubstituteVariables(value.d[k][2], context, t)>> ])
    ELSE IF value.t = "list"
    THEN PyList([ k \in 1..Len(value.l) |-> SubstituteVariables(value.l[k], context, t) ])
    ELSE value

(***************************************************************************)
(* The condition evaluator                                                 *)
(***************************************************************************)

\* a list of the operators that has the one-character operators first
OperatorsShortFirst ==
    << <<">">>, <<"<">>, <<"!", "=">>, <<"=", "=">>, <<">", "=">>, <<"<", "=">> >>

\* operators = ["!=", "==", ">=", "<=", ">", "<"]
Operators == << <<"!", "=">>, <<"=", "=">>, <<">", "=">>, <<"<", "=">>, <<">">>, <<"<">> >>

\* the right operand: a quoted literal, true/false, a number, else an
\* expression
ParseRight(right_str, context, t) ==
    IF StartsWith(right_str, <<"'">>) /\ EndsWith(right_str, <<"'">>)
    THEN PyStr(SubSeq(right_str, 2, Len(right_str) - 1))
    ELSE IF StartsWith(right_str, <<"\"">>) /\ EndsWith(right_str, <<"\"">>)
    THEN PyStr(SubSeq(right_str, 2, Len(right_str) - 1))
    ELSE IF Lower(right_str) = S_true THEN PyBool(TRUE)
    ELSE IF Lower(right_str) = S_false THEN PyBool(FALSE)
    ELSE IF right_str = <<"'", "'">> THEN EmptyStr
    ELSE IF Contains(right_str, <<".">>)
    THEN IF ParseFloat(right_str).ok
         THEN PyFloat(ParseFloat(right_str).num, ParseFloat(right_str).den)
         ELSE EvaluateExpression(right_str, context, t)
    ELSE IF ParseInt(right_str).ok
         THEN PyInt(ParseInt(right_str).num)
         ELSE EvaluateExpression(right_str, context, t)

\* the comparison; a failed float() makes an ordering comparison False
Compare(op, left, right) ==
    LET l == ToFloat(left)
        r == ToFloat(right)
    IN  IF op = <<"=", "=">> THEN PyEq(left, right)
        ELSE IF op = <<"!", "=">> THEN ~PyEq(left, right)
        ELSE IF ~l.ok \/ ~r.ok THEN FALSE
        ELSE IF op = <<">">> THEN l.num * r.den > r.num * l.den
        ELSE IF op = <<"<">> THEN l.num * r.den < r.num * l.den
        ELSE IF op = <<">", "=">> THEN l.num * r.den >= r.num * l.den
        ELSE l.num * r.den <= r.num * l.den

\* no operator of the list is in the condition
NoSplit == [found |-> FALSE, op |-> <<>>, left |-> <<>>, right |-> <<>>]

\* the loop over the operators: the first of the list that the condition
\* contains, and the two parts of condition.split(op, 1)
SplitCondition(condition) ==
    LET found == { k \in 1..Len(Operators) : Contains(condition, Operators[k]) }
    IN  IF found = {} THEN NoSplit
        ELSE LET op    == Operators[CHOOSE k \in found : \A j \in found : k <= j]
                 parts == Split1(condition, op)
             IN  [found |-> TRUE, op |-> op, left |-> parts[1], right |-> parts[2]]

\* float(left) > float(right) and the like raise an error that the except
\* clause (ValueError, TypeError) does not name: float(left) overflows, or
\* float(left) returns and float(right) overflows
CompareRaises(op, left, right) ==
    /\ op \notin {<<"=", "=">>, <<"!", "=">>}
    /\ \/ CastOverflows(left)
       \/ ToFloat(left).ok /\ CastOverflows(right)

\* _evaluate_condition does not return: the evaluation of an operand, or of
\* the whole condition when it holds no operator, raises, or the comparison
\* raises what its except clause does not catch
ConditionRaises(condition, context, t) ==
    LET split == SplitCondition(condition)
        left  == EvaluateExpression(Strip(split.left), context, t)
        right == ParseRight(Strip(split.right), context, t)
    IN  IF Lower(condition) \in {S_true, S_false} THEN FALSE
        ELSE IF split.found
        THEN \/ left = Raised
             \/ right = Raised
             \/ CompareRaises(split.op, left, right)
        ELSE EvaluateExpression(condition, context, t) = Raised

\* _evaluate_condition comparing the literals without lower()
EvaluateConditionCaseSensitive(condition, context, t) ==
    LET split == SplitCondition(condition)
    IN  IF condition = S_true THEN TRUE
        ELSE IF condition = S_false THEN FALSE
        ELSE IF split.found
        THEN LET left == EvaluateExpression(Strip(split.left), context, t)
             IN  Compare(split.op, left, ParseRight(Strip(split.right), context, t))
        ELSE LET value == EvaluateExpression(condition, context, t)
             IN  IF value.t = "str" THEN value.s # <<>> ELSE Truthy(value)

\* _evaluate_condition(condition, context), the clock reading `t`, when it
\* returns
EvaluateCondition(condition, context, t) ==
    LET split == SplitCondition(condition)
    IN  IF Lower(condition) = S_true THEN TRUE
        ELSE IF Lower(condition) = S_false THEN FALSE
        ELSE IF split.found
        THEN LET left == EvaluateExpression(Strip(split.left), context, t)
             IN  Compare(split.op, left, ParseRight(Strip(split.right), context, t))
        ELSE LET value == EvaluateExpression(condition, context, t)
             IN  IF value.t = "str" THEN value.s # <<>> ELSE Truthy(value)


(***************************************************************************)
(* Workflow definitions, inputs, the clock and the actions of the model    *)
(***************************************************************************)

S_city    == <<"c", "i", "t", "y">>
S_n       == <<"n">>
S_title   == <<"t", "i", "t", "l", "e">>
S_message == <<"m", "e", "s", "s", "a", "g", "e">>
S_app     == <<"a", "p", "p">>
S_text    == <<"t", "e", "x", "t">>
S_success == <<"s", "u", "c", "c", "e", "s", "s">>
S_skipped == <<"s", "k", "i", "p", "p", "e", "d">>
S_result  == <<"r", "e", "s", "u", "l", "t">>

T1000 == <<"1", "0", ":", "0", "0">>
T2300 == <<"2", "3", ":", "0", "0">>

\* the instants the wall clock runs through
Clock ==
    << [day |-> "mon", date |-> <<"2", "0", "2", "4", "-", "0", "1", "-", "0", "1">>, h |-> 9,  m |-> 59, s |-> 7],
       [day |-> "mon", date |-> <<"2", "0", "2", "4", "-", "0", "1", "-", "0", "1">>, h |-> 10, m |-> 0,  s |-> 0],
       [day |-> "tue", date |-> <<"2", "0", "2", "4", "-", "0", "1", "-", "0", "2">>, h |-> 23, m |-> 0,  s |-> 30] >>

\* step["action"] and step.get(...) of "if", "delay", "time_after",
\* "time_before", "days", "params"; the empty string, 0 and the empty list
\* stand for an absent key (all are falsy, as None is)
Step(action, params, if, delay, time_after, time_before, days) ==
    [action |-> action, params |-> params, if |-> if, delay |-> delay,
     time_after |-> time_after, time_before |-> time_before, days |-> days]

PlainStep ==
    Step("notify",
         << <<S_title, PyStr(<<"h", "i">>)>>, <<S_message, PyStr(<<"c", ":", " ", "{", "{", " ", "i", "n", "p", "u", "t", ".", "c", "i", "t", "y", " ", "}", "}">>)>> >>,
         <<>>, 0, <<>>, <<>>, <<>>)

WindowStep ==
    Step("clipboard-get", <<>>, <<>>, 0, T1000, T2300, <<>>)

DayStep ==
    Step("open-app", << <<S_app, PyStr(<<"{", "{", "s", "t", "e", "p", "s", "[", "0", "]", ".", "t", "e", "x", "t", "}", "}">>)>> >>,
         <<"s", "t", "e", "p", "s", "[", "0", "]", ".", "s", "u", "c", "c", "e", "s", "s", " ", "=", "=", " ", "t", "r", "u", "e">>, 0, <<>>, <<>>, <<"mon">>)

GuardedStep ==
    Step("notify", << <<S_message, PyStr(<<"a", "t", " ", "{", "{", " ", "t", "i", "m", "e", " ", "}", "}">>)>> >>,
         <<"i", "n", "p", "u", "t", ".", "n", " ", ">", " ", "3">>, 2, <<>>, <<>>, <<>>)

StepKinds == {PlainStep, WindowStep, DayStep, GuardedStep}

\* the longest workflow of the model
MaxSteps == 3

RECURSIVE SeqsUpTo(_, _)
SeqsUpTo(S, n) ==
    IF n = 0 THEN {<<>>}
    ELSE LET shorter == SeqsUpTo(S, n - 1)
         IN  shorter \cup { Append(q, x) : q \in { r \in shorter : Len(r) = n - 1 }, x \in S }

\* an input declaration: input_def.get("name"), .get("required", False),
\* .get("default")
InputDef(name, required, default) ==
    [name |-> name, required |-> required, default |-> default]

InputDefs ==
    { <<>>,
      << InputDef(S_city, FALSE, PyStr(<<"N", "Y", "C">>)), InputDef(S_n, TRUE, PyNone) >> }

\* the definitions of the model: a definition is a mapping from field names
\* to values; "steps" holds a Python value (a list of steps, if well formed)
Configs == [inputs : InputDefs, steps : { PyList(q) : q \in SeqsUpTo(StepKinds, MaxSteps) }]

Names == {"morning", "night"}

\* the run-time inputs of the model; None and {} behave alike (both falsy)
InputChoices ==
    { <<>>,
      << <<S_n, PyInt(5)>> >>,
      << <<S_n, PyInt(2)>>, <<S_city, PyStr(<<"L", "A">>)>> >> }

\* the names main.py registers (three of them)
Registered == {"notify", "clipboard-get", "open-app"}

\* what a registered action returns when it does not raise
ActionReturn(action) ==
    IF action = "notify" THEN PyStr(<<"s", "e", "n", "t">>)
    ELSE IF action = "clipboard-get" THEN PyDict(<< <<S_text, PyStr(<<"n", "o", "t", "e", "s">>)>> >>)
    ELSE PyStr(<<"o", "p", "e", "n", "e", "d">>)

(***************************************************************************)
(* The workflow store                                                      *)
(***************************************************************************)

NoWorkflows == [n \in {} |-> n]

NoFile == [exists |-> FALSE, workflows |-> NoWorkflows]

Document(workflows) == [exists |-> TRUE, workflows |-> workflows]

\* the file after _load_workflows: a missing file is copied from the
\* example file when there is one
LoadedFile(f, ex) == IF ~f.exists /\ ex.exists THEN ex ELSE f

\* data.get("workflows", {}) of what _load_workflows returns
LoadWorkflows(f, ex) == LoadedFile(f, ex).workflows

\* a version of get_workflow that returns the fields it knows of only
GetWorkflowKnownFields(name, workflows) ==
    IF name \notin DOMAIN workflows THEN [found |-> FALSE]
    ELSE [found |-> TRUE,
          workflow |-> [key \in (DOMAIN workflows[name] \cap {"inputs", "steps"}) \cup {"name"} |->
                            IF key = "name" THEN name ELSE workflows[name][key]]]

\* a version of get_workflow that remembers what it returned for a name
GetWorkflowMemo(name, workflows) ==
    LET earlier == { k \in 1..Len(log) : log[k].op = "get" /\ log[k].name = name }
    IN  IF earlier # {} THEN log[CHOOSE k \in earlier : \A e \in earlier : e <= k].result
        ELSE IF name \notin DOMAIN workflows THEN [found |-> FALSE]
        ELSE [found |-> TRUE, workflow |-> workflows[name] @@ [name |-> name]]

\* get_workflow, given the loaded workflows: None, or {"name": name,
\* **workflows[name]} (a name field of the definition itself wins)
GetWorkflow(name, workflows) ==
    IF name \notin DOMAIN workflows THEN [found |-> FALSE]
    ELSE [found |-> TRUE, workflow |-> workflows[name] @@ [name |-> name]]

\* workflow.get("inputs", []) and workflow.get("steps", []) of run
Loaded(workflow) ==
    [inputs |-> IF "inputs" \in DOMAIN workflow THEN workflow.inputs ELSE <<>>,
     steps  |-> IF "steps" \in DOMAIN workflow THEN workflow.steps.l ELSE <<>>]


(***************************************************************************)
(* run(name, inputs)                                                       *)
(***************************************************************************)

NoConfig == [inputs |-> <<>>, steps |-> <<>>]
NoError  == [kind |-> "none"]
NoResult == [workflow |-> "", steps_executed |-> 0, steps_skipped |-> 0, results |-> <<>>]

\* a thread that is not inside run()
Idle ==
    [pc |-> "idle", name |-> "", inputs |-> <<>>, workflow |-> NoConfig, i |-> 0,
     context |-> [input |-> <<>>, steps |-> <<>>], results |-> <<>>,
     trace |-> <<>>, error |-> NoError, result |-> NoResult]

\* a loop over input_defs that prefers the declared default to the run-time
\* value
RECURSIVE ResolveDeclaredDefaultFirst(_, _, _)
ResolveDeclaredDefaultFirst(input_defs, inputs, resolved) ==
    IF input_defs = <<>> THEN [ok |-> TRUE, resolved |-> resolved, missing |-> <<>>]
    ELSE LET input_def == Head(input_defs)
         IN  IF input_def.default # PyNone
             THEN ResolveDeclaredDefaultFirst(Tail(input_defs), inputs,
                      Put(resolved, input_def.name, input_def.default))
             ELSE IF input_def.name \in Keys(inputs)
             THEN ResolveDeclaredDefaultFirst(Tail(input_defs), inputs,
                      Put(resolved, input_def.name, Get(inputs, input_def.name, PyNone)))
             ELSE IF input_def.required
             THEN [ok |-> FALSE, resolved |-> resolved, missing |-> input_def.name]
             ELSE ResolveDeclaredDefaultFirst(Tail(input_defs), inputs, resolved)

\* a loop over input_defs that lets a required input go unresolved
RECURSIVE ResolveDeclaredLenient(_, _, _)
ResolveDeclaredLenient(input_defs, inputs, resolved) ==
    IF input_defs = <<>> THEN [ok |-> TRUE, resolved |-> resolved, missing |-> <<>>]
    ELSE LET input_def == Head(input_defs)
         IN  IF input_def.name \in Keys(inputs)
             THEN ResolveDeclaredLenient(Tail(input_defs), inputs,
                      Put(resolved, input_def.name, Get(inputs, input_def.name, PyNone)))
             ELSE IF input_def.default # PyNone
             THEN ResolveDeclaredLenient(Tail(input_defs), inputs,
                      Put(resolved, input_def.name, input_def.default))
             ELSE ResolveDeclaredLenient(Tail(input_defs), inputs, resolved)

\* the loop over input_defs: the run-time value, else the default, else an
\* error for a required input
RECURSIVE ResolveDeclared(_, _, _)
ResolveDeclared(input_defs, inputs, resolved) ==
    IF input_defs = <<>> THEN [ok |-> TRUE, resolved |-> resolved, missing |-> <<>>]
    ELSE LET input_def == Head(input_defs)
         IN  IF input_def.name \in Keys(inputs)
             THEN ResolveDeclared(Tail(input_defs), inputs,
                      Put(resolved, input_def.name, Get(inputs, input_def.name, PyNone)))
             ELSE IF input_def.default # PyNone
             THEN ResolveDeclared(Tail(input_defs), inputs,
                      Put(resolved, input_def.name, input_def.default))
             ELSE IF input_def.required
             THEN [ok |-> FALSE, resolved |-> resolved, missing |-> input_def.name]
             ELSE ResolveDeclared(Tail(input_defs), inputs, resolved)

\* the loop over inputs.items(): the inputs that were not declared
RECURSIVE AddExtra(_, _)
AddExtra(inputs, resolved) ==
    IF inputs = <<>> THEN resolved
    ELSE AddExtra(Tail(inputs),
             IF Head(inputs)[1] \in Keys(resolved) THEN resolved
             ELSE Put(resolved, Head(inputs)[1], Head(inputs)[2]))

\* the value run() returns
RunResult(name, results) ==
    [workflow       |-> name,
     steps_executed |-> Cardinality({ k \in 1..Len(results) : results[k].status = "ok" }),
     steps_skipped  |-> Cardinality({ k \in 1..Len(results) : results[k].status = "skipped" }),
     results        |-> results]

\* a loop that does not move on to the next index
NextStepAgain(f) ==
    IF f.i + 1 < Len(f.workflow.steps)
    THEN [f EXCEPT !.pc = "gate"]
    ELSE [f EXCEPT !.pc = "done", !.result = RunResult(f.name, f.results)]

\* the frame after the body of the loop has ended for step f.i without an
\* error: the next step, or the return
NextStep(f) ==
    IF f.i + 1 < Len(f.workflow.steps)
    THEN [f EXCEPT !.pc = "gate", !.i = f.i + 1]
    ELSE [f EXCEPT !.pc = "done", !.result = RunResult(f.name, f.results)]

\* a skipped step that leaves no entry in context["steps"]
SkippedNoMarker(f, reason) ==
    [f EXCEPT !.results = Append(@, [step |-> f.i, action |-> f.workflow.steps[f.i + 1].action,
                                     status |-> "skipped", reason |-> reason])]

\* results.append of a skipped step, context["steps"].append({"skipped": True})
Skipped(f, reason) ==
    [f EXCEPT !.results = Append(@, [step |-> f.i, action |-> f.workflow.steps[f.i + 1].action,
                                     status |-> "skipped", reason |-> reason]),
              !.context.steps = Append(@, << <<S_skipped, PyBool(TRUE)>> >>)]

\* a normalization that merges the other way round, {"success": True, **output}:
\* a success field of the mapping wins
NormalizeKeepSuccess(output) ==
    IF output.t = "str" THEN << <<S_message, output>>, <<S_success, PyBool(TRUE)>> >>
    ELSE IF output.t = "dict"
    THEN IF S_success \in Keys(output.d) THEN output.d
         ELSE Put(output.d, S_success, PyBool(TRUE))
    ELSE << <<S_result, output>>, <<S_success, PyBool(TRUE)>> >>

\* a normalization that wraps whatever is not a mapping under "message"
NormalizeAllMessage(output) ==
    IF output.t = "dict" THEN Put(output.d, S_success, PyBool(TRUE))
    ELSE << <<S_message, output>>, <<S_success, PyBool(TRUE)>> >>

\* step_output: the return value of the action as a dict
Normalize(output) ==
    IF output.t = "str" THEN << <<S_message, output>>, <<S_success, PyBool(TRUE)>> >>
    ELSE IF output.t = "dict" THEN Put(output.d, S_success, PyBool(TRUE))
    ELSE << <<S_result, output>>, <<S_success, PyBool(TRUE)>> >>

\* context["steps"].append(step_output), results.append of an ok step
Executed(f, step_output) ==
    [f EXCEPT !.context.steps = Append(@, step_output),
              !.results = Append(@, [step |-> f.i, action |-> f.workflow.steps[f.i + 1].action,
                                     status |-> "ok", output |-> step_output])]

\* raise WorkflowError(...)
Failed(f, error) == [f EXCEPT !.pc = "failed", !.error = error]

\* an except clause that tries the step again
StepFailedRetry(f) == [f EXCEPT !.pc = "invoke"]

\* an except clause that returns what has been done so far
StepFailedPartial(f) == [f EXCEPT !.pc = "done", !.result = RunResult(f.name, f.results)]

\* except Exception: the error of step i is raised again as a WorkflowError
StepFailed(f) ==
    Failed(f, [kind |-> "step failed", step |-> f.i,
               action |-> f.workflow.steps[f.i + 1].action])

\* a run() that takes a name the store does not hold for a workflow with
\* no steps
EnterAnyName(name, inputs, workflows) ==
    LET f == [Idle EXCEPT !.name = name, !.inputs = inputs]
    IN  IF name \notin DOMAIN workflows
        THEN [f EXCEPT !.pc = "done", !.result = RunResult(name, <<>>)]
        ELSE LET workflow == Loaded(GetWorkflow(name, workflows).workflow)
                 declared == ResolveDeclared(workflow.inputs, inputs, <<>>)
             IN  IF ~declared.ok
                 THEN Failed([f EXCEPT !.workflow = workflow],
                             [kind |-> "missing input", input |-> declared.missing])
                 ELSE LET g == [f EXCEPT !.workflow = workflow,
                                         !.context.input = AddExtra(inputs, declared.resolved)]
                      IN  IF workflow.steps = <<>>
                          THEN [g EXCEPT !.pc = "done", !.result = RunResult(name, <<>>)]
                          ELSE [g EXCEPT !.pc = "gate"]

\* run() up to the loop: the workflow is looked up, the inputs are resolved
\* and the context is built
Enter(name, inputs, workflows) ==
    LET got == GetWorkflow(name, workflows)
        workflow == Loaded(got.workflow)
        declared == ResolveDeclared(workflow.inputs, inputs, <<>>)
        f == [Idle EXCEPT !.name = name, !.inputs = inputs]
    IN  IF ~got.found
        THEN Failed(f, [kind |-> "not found", name |-> name])
        ELSE IF ~declared.ok
        THEN Failed([f EXCEPT !.workflow = workflow],
                    [kind |-> "missing input", input |-> declared.missing])
        ELSE LET g == [f EXCEPT !.workflow = workflow,
                                !.context.input = AddExtra(inputs, declared.resolved)]
             IN  IF workflow.steps = <<>>
                 THEN [g EXCEPT !.pc = "done", !.result = RunResult(name, <<>>)]
                 ELSE [g EXCEPT !.pc = "gate"]

\* a thread calls run(name, inputs)
StartRun(t, name, inputs) ==
    /\ run[t].pc \in {"idle", "done", "failed"}
    /\ file' = LoadedFile(file, example)
    /\ run' = [run EXCEPT ![t] = Enter(name, inputs, LoadWorkflows(file, example))]
    /\ UNCHANGED <<example, actions, now, gate, log, writers, state, timer_task, tasks, calls, ready, cond>>

\* a loop body that ends the loop (break) when the time conditions deny the step
AdmitStepBreak(t) ==
    LET f == run[t]
        step == f.workflow.steps[f.i + 1]
        skip_reason == CheckTimeConditions(step.time_after, step.time_before,
                                           step.days, Clock[now])
        g == [f EXCEPT !.trace = Append(@, [ev |-> "gate", step |-> f.i, at |-> now])]
        h == [g EXCEPT !.trace = Append(@, [ev |-> "cond", step |-> f.i, at |-> now])]
        s == Skipped(g, skip_reason)
    IN  /\ f.pc = "gate"
        /\ run' = [run EXCEPT ![t] =
                      IF skip_reason # NoReason
                      THEN [s EXCEPT !.pc = "done", !.result = RunResult(s.name, s.results)]
                      ELSE IF step.if = <<>>
                      THEN [g EXCEPT !.pc = IF step.delay > 0 THEN "delay" ELSE "invoke"]
                      ELSE IF ~EvaluateCondition(step.if, f.context, Clock[now])
                      THEN NextStep(Skipped(h, [why |-> "condition not met"]))
                      ELSE [h EXCEPT !.pc = IF step.delay > 0 THEN "delay" ELSE "invoke"]]
        /\ UNCHANGED <<file, example, actions, now, gate, log, writers, state, timer_task, tasks, calls, ready, cond>>

\* a loop body that evaluates the `if` condition and goes on whatever it gave
AdmitStepIgnoreIf(t) ==
    LET f == run[t]
        step == f.workflow.steps[f.i + 1]
        skip_reason == CheckTimeConditions(step.time_after, step.time_before,
                                           step.days, Clock[now])
        g == [f EXCEPT !.trace = Append(@, [ev |-> "gate", step |-> f.i, at |-> now])]
        h == [g EXCEPT !.trace = Append(@, [ev |-> "cond", step |-> f.i, at |-> now])]
    IN  /\ f.pc = "gate"
        /\ run' = [run EXCEPT ![t] =
                      IF skip_reason # NoReason
                      THEN NextStep(Skipped(g, skip_reason))
                      ELSE IF step.if = <<>>
                      THEN [g EXCEPT !.pc = IF step.delay > 0 THEN "delay" ELSE "invoke"]
                      ELSE [h EXCEPT !.pc = IF step.delay > 0 THEN "delay" ELSE "invoke"]]
        /\ UNCHANGED <<file, example, actions, now, gate, log, writers, state, timer_task, tasks, calls, ready, cond>>

\* a loop body that evaluates the `if` condition first and checks the time
\* conditions only when it held
AdmitStepCondFirst(t) ==
    LET f == run[t]
        step == f.workflow.steps[f.i + 1]
        skip_reason == CheckTimeConditions(step.time_after, step.time_before,
                                           step.days, Clock[now])
        c == [f EXCEPT !.trace = Append(@, [ev |-> "cond", step |-> f.i, at |-> now])]
        g == [(IF step.if = <<>> THEN f ELSE c)
                  EXCEPT !.trace = Append(@, [ev |-> "gate", step |-> f.i, at |-> now])]
    IN  /\ f.pc = "gate"
        /\ run' = [run EXCEPT ![t] =
                      IF step.if # <<>> /\ ~EvaluateCondition(step.if, f.context, Clock[now])
                      THEN NextStep(Skipped(c, [why |-> "condition not met"]))
                      ELSE IF skip_reason # NoReason
                      THEN NextStep(Skipped(g, skip_reason))
                      ELSE [g EXCEPT !.pc = IF step.delay > 0 THEN "delay" ELSE "invoke"]]
        /\ UNCHANGED <<file, example, actions, now, gate, log, writers, state, timer_task, tasks, calls, ready, cond>>

\* a loop body that waits for every delay that is set, negative ones too
AdmitStepAnyDelay(t) ==
    LET f == run[t]
        step == f.workflow.steps[f.i + 1]
        skip_reason == CheckTimeConditions(step.time_after, step.time_before,
                                           step.days, Clock[now])
        g == [f EXCEPT !.trace = Append(@, [ev |-> "gate", step |-> f.i, at |-> now])]
        h == [g EXCEPT !.trace = Append(@, [ev |-> "cond", step |-> f.i, at |-> now])]
    IN  /\ f.pc = "gate"
        /\ run' = [run EXCEPT ![t] =
                      IF skip_reason # NoReason
                      THEN NextStep(Skipped(g, skip_reason))
                      ELSE IF step.if = <<>>
                      THEN [g EXCEPT !.pc = IF step.delay # 0 THEN "delay" ELSE "invoke"]
                      ELSE IF ConditionRaises(step.if, f.context, Clock[now])
                      THEN Failed(h, [kind |-> "exception", step |-> f.i])
                      ELSE IF ~EvaluateCondition(step.if, f.context, Clock[now])
                      THEN NextStep(Skipped(h, [why |-> "condition not met"]))
                      ELSE [h EXCEPT !.pc = IF step.delay # 0 THEN "delay" ELSE "invoke"]]
        /\ UNCHANGED <<file, example, actions, now, gate, log, writers, state, timer_task, tasks, calls, ready, cond>>

\* a loop body that looks the action up before it checks the time
\* conditions and the `if` condition
AdmitStepLooksUpFirst(t) ==
    LET f == run[t]
        step == f.workflow.steps[f.i + 1]
        skip_reason == CheckTimeConditions(step.time_after, step.time_before,
                                           step.days, Clock[now])
        g == [f EXCEPT !.trace = Append(@, [ev |-> "gate", step |-> f.i, at |-> now])]
        h == [g EXCEPT !.trace = Append(@, [ev |-> "cond", step |-> f.i, at |-> now])]
    IN  /\ f.pc = "gate"
        /\ run' = [run EXCEPT ![t] =
                      IF step.action \notin DOMAIN actions
                      THEN Failed(g, [kind |-> "unknown action", step |-> f.i,
                                      action |-> step.action])
                      ELSE IF skip_reason # NoReason
                      THEN NextStep(Skipped(g, skip_reason))
                      ELSE IF step.if = <<>>
                      THEN [g EXCEPT !.pc = IF step.delay > 0 THEN "delay" ELSE "invoke"]
                      ELSE IF ConditionRaises(step.if, f.context, Clock[now])
                      THEN Failed(h, [kind |-> "exception", step |-> f.i])
                      ELSE IF ~EvaluateCondition(step.if, f.context, Clock[now])
                      THEN NextStep(Skipped(h, [why |-> "condition not met"]))
                      ELSE [h EXCEPT !.pc = IF step.delay > 0 THEN "delay" ELSE "invoke"]]
        /\ UNCHANGED <<file, example, actions, now, gate, log, writers, state, timer_task, tasks, calls, ready, cond>>

\* the body of the loop for step i up to the delay: the time conditions are
\* checked, then the `if` condition when the step has one; the step is
\* skipped or admitted
AdmitStep(t) ==
    LET f == run[t]
        step == f.workflow.steps[f.i + 1]
        skip_reason == CheckTimeConditions(step.time_after, step.time_before,
                                           step.days, Clock[now])
        g == [f EXCEPT !.trace = Append(@, [ev |-> "gate", step |-> f.i, at |-> now])]
        h == [g EXCEPT !.trace = Append(@, [ev |-> "cond", step |-> f.i, at |-> now])]
    IN  /\ f.pc = "gate"
        /\ run' = [run EXCEPT ![t] =
                      IF skip_reason # NoReason
                      THEN NextStep(Skipped(g, skip_reason))
                      ELSE IF step.if = <<>>
                      THEN [g EXCEPT !.pc = IF step.delay > 0 THEN "delay" ELSE "invoke"]
                      ELSE IF ConditionRaises(step.if, f.context, Clock[now])
                      THEN Failed(h, [kind |-> "exception", step |-> f.i])
                      ELSE IF ~EvaluateCondition(step.if, f.context, Clock[now])
                      THEN NextStep(Skipped(h, [why |-> "condition not met"]))
                      ELSE [h EXCEPT !.pc = IF step.delay > 0 THEN "delay" ELSE "invoke"]]
        /\ UNCHANGED <<file, example, actions, now, gate, log, writers, state, timer_task, tasks, calls, ready, cond>>

\* time.sleep(delay) returns
DelayStep(t) ==
    LET f == run[t]
    IN  /\ f.pc = "delay"
        /\ run' = [run EXCEPT ![t] =
                      [f EXCEPT !.pc = "invoke",
                                !.trace = Append(@, [ev |-> "sleep", step |-> f.i])]]
        /\ UNCHANGED <<file, example, actions, now, gate, log, writers, state, timer_task, tasks, calls, ready, cond>>

\* a loop body that substitutes against a context kept in one place for all
\* the calls of run (that of another thread, if there is one)
InvokeStepShared(t, raises) ==
    LET f == run[t]
        others == DOMAIN run \ {t}
        shared == IF others = {} THEN f.context ELSE run[CHOOSE u \in others : TRUE].context
        step == f.workflow.steps[f.i + 1]
        resolved_params == SubstituteVariables(PyDict(step.params), shared, Clock[now]).d
        call == [ev |-> "call", step |-> f.i, action |-> step.action,
                 params |-> resolved_params, raised |-> raises]
        g == [f EXCEPT !.trace = Append(@, call)]
    IN  /\ f.pc = "invoke"
        /\ run' = [run EXCEPT ![t] =
                      IF step.action \notin DOMAIN actions
                      THEN Failed(f, [kind |-> "unknown action", step |-> f.i,
                                      action |-> step.action])
                      ELSE IF raises THEN StepFailed(g)
                      ELSE NextStep(Executed(g, Normalize(actions[step.action])))]
        /\ UNCHANGED <<file, example, actions, now, gate, log, writers, state, timer_task, tasks, calls, ready, cond>>

\* a loop body that puts the step's own outcome into the context before it
\* substitutes the parameters
InvokeStepOwnOutcome(t, raises) ==
    LET f == run[t]
        step == f.workflow.steps[f.i + 1]
        own == [f.context EXCEPT !.steps = Append(@, Normalize(actions[step.action]))]
        resolved_params == SubstituteVariables(PyDict(step.params), own, Clock[now]).d
        call == [ev |-> "call", step |-> f.i, action |-> step.action,
                 params |-> resolved_params, raised |-> raises]
        g == [f EXCEPT !.trace = Append(@, call)]
    IN  /\ f.pc = "invoke"
        /\ run' = [run EXCEPT ![t] =
                      IF step.action \notin DOMAIN actions
                      THEN Failed(f, [kind |-> "unknown action", step |-> f.i,
                                      action |-> step.action])
                      ELSE IF raises THEN StepFailed(g)
                      ELSE NextStep(Executed(g, Normalize(actions[step.action])))]
        /\ UNCHANGED <<file, example, actions, now, gate, log, writers, state, timer_task, tasks, calls, ready, cond>>

\* a loop body that looks the step up in the store again before it calls it
InvokeStepReloads(t, raises) ==
    LET f == run[t]
        got == GetWorkflow(f.name, LoadWorkflows(file, example))
        steps == IF got.found /\ f.i < Len(Loaded(got.workflow).steps)
                 THEN Loaded(got.workflow).steps ELSE f.workflow.steps
        step == steps[f.i + 1]
        resolved_params == SubstituteVariables(PyDict(step.params), f.context, Clock[now]).d
        call == [ev |-> "call", step |-> f.i, action |-> step.action,
                 params |-> resolved_params, raised |-> raises]
        g == [f EXCEPT !.trace = Append(@, call)]
    IN  /\ f.pc = "invoke"
        /\ run' = [run EXCEPT ![t] =
                      IF step.action \notin DOMAIN actions
                      THEN Failed(f, [kind |-> "unknown action", step |-> f.i,
                                      action |-> step.action])
                      ELSE IF raises THEN StepFailed(g)
                      ELSE NextStep(Executed(g, Normalize(actions[step.action])))]
        /\ UNCHANGED <<file, example, actions, now, gate, log, writers, state, timer_task, tasks, calls, ready, cond>>

\* a loop body that checks the time conditions again before the call and
\* skips the step if the clock has left the window
InvokeStepGated(t, raises) ==
    LET f == run[t]
        step == f.workflow.steps[f.i + 1]
        skip_reason == CheckTimeConditions(step.time_after, step.time_before,
                                           step.days, Clock[now])
        resolved_params == SubstituteVariables(PyDict(step.params), f.context, Clock[now]).d
        call == [ev |-> "call", step |-> f.i, action |-> step.action,
                 params |-> resolved_params, raised |-> raises]
        g == [f EXCEPT !.trace = Append(@, call)]
    IN  /\ f.pc = "invoke"
        /\ run' = [run EXCEPT ![t] =
                      IF skip_reason # NoReason
                      THEN NextStep(Skipped(f, skip_reason))
                      ELSE IF step.action \notin DOMAIN actions
                      THEN Failed(f, [kind |-> "unknown action", step |-> f.i,
                                      action |-> step.action])
                      ELSE IF raises THEN StepFailed(g)
                      ELSE NextStep(Executed(g, Normalize(actions[step.action])))]
        /\ UNCHANGED <<file, example, actions, now, gate, log, writers, state, timer_task, tasks, calls, ready, cond>>

\* the parameters of step i are substituted, the action is looked up and
\* called; it returns or it raises
InvokeStep(t, raises) ==
    LET f == run[t]
        step == f.workflow.steps[f.i + 1]
        resolved_params == SubstituteVariables(PyDict(step.params), f.context, Clock[now]).d
        call == [ev |-> "call", step |-> f.i, action |-> step.action,
                 params |-> resolved_params, raised |-> raises]
        g == [f EXCEPT !.trace = Append(@, call)]
    IN  /\ f.pc = "invoke"
        /\ run' = [run EXCEPT ![t] =
                      IF step.action \notin DOMAIN actions
                      THEN Failed(f, [kind |-> "unknown action", step |-> f.i,
                                      action |-> step.action])
                      ELSE IF raises THEN StepFailed(g)
                      ELSE NextStep(Executed(g, Normalize(actions[step.action])))]
        /\ UNCHANGED <<file, example, actions, now, gate, log, writers, state, timer_task, tasks, calls, ready, cond>>

\* self.actions = {} of the constructor
NoActions == [a \in {} |-> a]

\* register_actions(...) of main.py
RegisterActions ==
    /\ actions' = [a \in DOMAIN actions \cup Registered |->
                       IF a \in Registered THEN ActionReturn(a) ELSE actions[a]]
    /\ actions' # actions
    /\ UNCHANGED <<file, example, now, run, gate, log, writers, state, timer_task, tasks, calls, ready, cond>>

\* the wall clock moves on
Tick ==
    /\ now < Len(Clock)
    /\ now' = now + 1
    /\ UNCHANGED <<file, example, actions, run, gate, log, writers, state, timer_task, tasks, calls, ready, cond>>

\* no thread is inside create_workflow or delete_workflow
NoWriters == [t \in {} |-> t]

\* None, where the code holds a task, a time or a volume
None == 0

\* PomodoroState(): the defaults of the dataclass
PomodoroState ==
    [active |-> FALSE, session_type |-> "work", start_time |-> None,
     duration_minutes |-> 25, work_duration |-> 25, break_duration |-> 5,
     sessions_completed |-> 0, focus_mode_enabled |-> FALSE, original_volume |-> None]

NoTasks == <<>>

NoCalls == <<>>

\* PomodoroManager(): the default state, no timer task; nothing runs on the loop
InitManager ==
    /\ state = PomodoroState
    /\ timer_task = None
    /\ tasks = NoTasks
    /\ calls = NoCalls
    /\ ready = <<>>

\* _evaluate_condition has not been called
NoCond == [condition |-> <<>>, input |-> <<>>, evaluated |-> FALSE, split |-> NoSplit,
           value |-> FALSE]

NoGate == [time_after |-> <<>>, time_before |-> <<>>, days |-> <<>>, at |-> Clock[1],
           checked |-> FALSE, reason |-> NoReason]

Threads == {"t1"}

ExampleDocument == Document([n \in {"morning"} |-> [inputs |-> <<>>, steps |-> PyList(<<PlainStep>>)]])

Init ==
    /\ \/ file = NoFile /\ example \in {NoFile, ExampleDocument}
       \/ file \in { Document([n \in {"morning"} |-> c]) : c \in Configs }
            /\ example = ExampleDocument
    /\ actions = NoActions
    /\ log = <<>>
    /\ now \in 1..Len(Clock)
    /\ run = [t \in Threads |-> Idle]
    /\ gate = NoGate
    /\ writers = NoWriters
    /\ InitManager
    /\ cond = NoCond

Next ==
    \/ \E t \in DOMAIN run, name \in Names, inputs \in InputChoices : StartRun(t, name, inputs)
    \/ \E t \in DOMAIN run : AdmitStep(t)
    \/ \E t \in DOMAIN run : DelayStep(t)
    \/ \E t \in DOMAIN run, raises \in BOOLEAN : InvokeStep(t, raises)
    \/ RegisterActions
    \/ Tick

Spec == Init /\ [][Next]_vars


(***************************************************************************)
(* The scheduling gate on its own: every combination of a window, a list   *)
(* of days and a clock reading                                             *)
(***************************************************************************)

GateHours == {0, 9, 10, 23}

GateMinutes == {0, 59}

GateTimes == {<<>>} \cup { StrfHM(h, m) : h \in GateHours, m \in GateMinutes }

GateDays == { <<>>, <<"mon">>, <<"tue", "wed">>, <<"sat", "sun", "mon">> }

GateClock ==
    { [day |-> d, date |-> <<"2", "0", "2", "4", "-", "0", "1", "-", "0", "1">>, h |-> h, m |-> m, s |-> 0] :
          d \in {"mon", "tue"}, h \in GateHours, m \in GateMinutes }

InitGate ==
    /\ file = NoFile
    /\ example = NoFile
    /\ actions = NoActions
    /\ log = <<>>
    /\ now = 1
    /\ run = [t \in Threads |-> Idle]
    /\ gate \in [time_after : GateTimes, time_before : GateTimes, days : GateDays,
                 at : GateClock, checked : {FALSE}, reason : {NoReason}]
    /\ writers = NoWriters
    /\ InitManager
    /\ cond = NoCond

\* _check_time_conditions is called
CheckGate ==
    /\ ~gate.checked
    /\ gate' = [gate EXCEPT !.checked = TRUE,
                            !.reason = CheckTimeConditions(gate.time_after, gate.time_before,
                                                           gate.days, gate.at)]
    /\ UNCHANGED <<file, example, actions, now, run, log, writers, state, timer_task, tasks, calls, ready, cond>>

NextGate == CheckGate

SpecGate == InitGate /\ [][NextGate]_vars

(***************************************************************************)
(* The outcome of a step: a workflow of two steps whose first action       *)
(* returns a value of any kind and whose second step asks for the success  *)
(* of the first                                                            *)
(***************************************************************************)

\* if: "steps[0].success == true"
IfStep0Ok ==
    <<"s", "t", "e", "p", "s", "[", "0", "]", ".", "s", "u", "c", "c", "e", "s", "s", " ", "=", "=", " ", "t", "r", "u", "e">>

ProbeStep == Step("clipboard-get", <<>>, <<>>, 0, <<>>, <<>>, <<>>)

AfterOkStep ==
    Step("notify",
         << <<S_message, PyStr(<<"{", "{", "s", "t", "e", "p", "s", "[", "0", "]", ".", "s", "u", "c", "c", "e", "s", "s", "}", "}">>)>> >>,
         IfStep0Ok, 1, <<>>, <<>>, <<>>)

\* what a callable registered with register_action may return
Outputs ==
    { PyStr(<<"s", "e", "n", "t">>), EmptyStr, PyInt(5), PyInt(0), PyFloat(15, 10),
      PyBool(TRUE), PyBool(FALSE), PyNone,
      PyList(<<PyStr(<<"a">>), PyInt(1)>>),
      PyDict(<<>>),
      PyDict(<< <<S_text, PyStr(<<"n", "o", "t", "e", "s">>)>> >>),
      PyDict(<< <<S_success, PyBool(FALSE)>>, <<S_text, PyStr(<<"n", "o", "t", "e", "s">>)>> >>),
      PyDict(<< <<S_message, PyStr(<<"n", "o">>)>>, <<S_success, PyStr(<<"n", "o">>)>> >>) }

InitOutcome ==
    /\ file = Document([n \in {"morning"} |-> [inputs |-> <<>>, steps |-> PyList(<<ProbeStep, AfterOkStep>>)]])
    /\ example = ExampleDocument
    /\ actions \in { [a \in Registered |-> IF a = "clipboard-get" THEN v ELSE ActionReturn(a)] :
                         v \in Outputs }
    /\ log = <<>>
    /\ now \in 1..Len(Clock)
    /\ run = [t \in Threads |-> Idle]
    /\ gate = NoGate
    /\ writers = NoWriters
    /\ InitManager
    /\ cond = NoCond

NextOutcome ==
    \/ \E t \in DOMAIN run, name \in Names, inputs \in InputChoices : StartRun(t, name, inputs)
    \/ \E t \in DOMAIN run : AdmitStep(t)
    \/ \E t \in DOMAIN run : DelayStep(t)
    \/ \E t \in DOMAIN run, raises \in BOOLEAN : InvokeStep(t, raises)
    \/ Tick

SpecOutcome == InitOutcome /\ [][NextOutcome]_vars

(***************************************************************************)
(* The operations on the store: list_workflows, get_workflow,              *)
(* create_workflow and delete_workflow. Each call is entered in log with   *)
(* its arguments, what it returned, the workflows a load gave before and   *)
(* after it, and the names registered when it was made.                    *)
(***************************************************************************)

\* the most calls of store operations in a behaviour
MaxOps == 3

NoBody == [n \in {} |-> n]

UnknownStep == Step("bogus", <<>>, <<>>, 0, <<>>, <<>>, <<>>)

\* definitions that create_workflow accepts
PlainBody == [inputs |-> <<>>, steps |-> PyList(<<PlainStep>>)]

DescribedBody ==
    [description |-> "copy", inputs |-> <<InputDef(S_city, FALSE, PyStr(<<"N", "Y", "C">>))>>,
     steps |-> PyList(<<ProbeStep, PlainStep>>)]

NamedBody == [name |-> "other", steps |-> PyList(<<>>)]

ValidBodies == {PlainBody, DescribedBody, NamedBody}

\* definitions that it refuses: no steps, steps that are a string, a second
\* step without action, a step with an action that is not registered
NoStepsBody == [description |-> "empty", inputs |-> <<>>]

TextStepsBody == [inputs |-> <<>>, steps |-> PyStr(<<"n", "o", "t", "i", "f", "y">>)]

NoActionBody == [inputs |-> <<>>, steps |-> PyList(<<PlainStep, [params |-> <<>>]>>)]

UnknownActionBody == [description |-> "bogus", steps |-> PyList(<<PlainStep, UnknownStep>>)]

InvalidBodies == {NoStepsBody, TextStepsBody, NoActionBody, UnknownActionBody}

\* a validation that does not look the actions up in the registry
ValidateNoRegistry(config, registry) ==
    IF "steps" \notin DOMAIN config THEN [kind |-> "validation", why |-> "no steps"]
    ELSE IF config.steps.t # "list" THEN [kind |-> "validation", why |-> "steps not a list"]
    ELSE LET steps == config.steps.l
             bad   == { i \in 1..Len(steps) : "action" \notin DOMAIN steps[i] }
         IN  IF bad = {} THEN NoError
             ELSE [kind |-> "validation", why |-> "missing action",
                   step |-> (CHOOSE i \in bad : \A j \in bad : i <= j) - 1]

\* _validate_workflow_config: the error it raises, or NoError
ValidateWorkflowConfig(config, registry) ==
    IF "steps" \notin DOMAIN config THEN [kind |-> "validation", why |-> "no steps"]
    ELSE IF config.steps.t # "list" THEN [kind |-> "validation", why |-> "steps not a list"]
    ELSE LET steps == config.steps.l
             bad   == { i \in 1..Len(steps) :
                            \/ "action" \notin DOMAIN steps[i]
                            \/ steps[i].action \notin registry }
             first == CHOOSE i \in bad : \A j \in bad : i <= j
         IN  IF bad = {} THEN NoError
             ELSE IF "action" \notin DOMAIN steps[first]
             THEN [kind |-> "validation", why |-> "missing action", step |-> first - 1]
             ELSE [kind |-> "validation", why |-> "unknown action", step |-> first - 1,
                   action |-> steps[first].action]

\* an assignment that updates the old definition, {**old, **config}
StoredMerged(workflows, name, config) ==
    [n \in DOMAIN workflows \cup {name} |->
         IF n # name THEN workflows[n]
         ELSE IF name \in DOMAIN workflows THEN config @@ workflows[name]
         ELSE config]

\* data["workflows"][name] = config
Stored(workflows, name, config) ==
    [n \in DOMAIN workflows \cup {name} |-> IF n = name THEN config ELSE workflows[n]]

\* del workflows[name]
Removed(workflows, name) == [n \in DOMAIN workflows \ {name} |-> workflows[n]]

\* the entry of a call in log
Entry(op, name, config, result, after) ==
    [op |-> op, name |-> name, config |-> config, result |-> result,
     before |-> LoadWorkflows(file, example), after |-> after.workflows,
     registry |-> DOMAIN actions]

\* a create_workflow that saves the definition before it validates it
CreateWorkflowSaveFirst(name, config) ==
    LET data    == LoadedFile(file, example)
        error   == ValidateWorkflowConfig(config, DOMAIN actions)
        saved   == Document(Stored(data.workflows, name, config))
        result  == IF error # NoError THEN [ok |-> FALSE, error |-> error]
                   ELSE [ok |-> TRUE, workflow |-> config @@ [name |-> name]]
    IN  /\ Len(log) < MaxOps
        /\ file' = saved
        /\ log' = Append(log, Entry("create", name, config, result, saved))
        /\ UNCHANGED <<example, actions, now, run, gate, writers, state, timer_task, tasks, calls, ready, cond>>

\* create_workflow(name, config): load, validate, then assign and save
CreateWorkflow(name, config) ==
    LET data    == LoadedFile(file, example)
        error   == ValidateWorkflowConfig(config, DOMAIN actions)
        saved   == IF error # NoError THEN data
                   ELSE Document(Stored(data.workflows, name, config))
        result  == IF error # NoError THEN [ok |-> FALSE, error |-> error]
                   ELSE [ok |-> TRUE, workflow |-> config @@ [name |-> name]]
    IN  /\ Len(log) < MaxOps
        /\ file' = saved
        /\ log' = Append(log, Entry("create", name, config, result, saved))
        /\ UNCHANGED <<example, actions, now, run, gate, writers, state, timer_task, tasks, calls, ready, cond>>

\* a delete_workflow that reports a deletion whether or not the name was there
DeleteWorkflowAlwaysTrue(name) ==
    LET data  == LoadedFile(file, example)
        found == name \in DOMAIN data.workflows
        saved == IF found THEN Document(Removed(data.workflows, name)) ELSE data
    IN  /\ Len(log) < MaxOps
        /\ file' = saved
        /\ log' = Append(log, Entry("delete", name, NoBody, [deleted |-> TRUE], saved))
        /\ UNCHANGED <<example, actions, now, run, gate, writers, state, timer_task, tasks, calls, ready, cond>>

\* delete_workflow(name): False if the name is not there, else delete and save
DeleteWorkflow(name) ==
    LET data  == LoadedFile(file, example)
        found == name \in DOMAIN data.workflows
        saved == IF found THEN Document(Removed(data.workflows, name)) ELSE data
    IN  /\ Len(log) < MaxOps
        /\ file' = saved
        /\ log' = Append(log, Entry("delete", name, NoBody, [deleted |-> found], saved))
        /\ UNCHANGED <<example, actions, now, run, gate, writers, state, timer_task, tasks, calls, ready, cond>>

\* a caller calls get_workflow(name)
GetWorkflowCall(name) ==
    LET data == LoadedFile(file, example)
    IN  /\ Len(log) < MaxOps
        /\ file' = data
        /\ log' = Append(log, Entry("get", name, NoBody, GetWorkflow(name, data.workflows), data))
        /\ UNCHANGED <<example, actions, now, run, gate, writers, state, timer_task, tasks, calls, ready, cond>>

\* the summary of a definition in list_workflows
Summary(name, config) ==
    [name        |-> name,
     description |-> IF "description" \in DOMAIN config THEN config.description ELSE "",
     inputs      |-> IF "inputs" \in DOMAIN config THEN config.inputs ELSE <<>>,
     steps_count |-> IF "steps" \in DOMAIN config THEN Len(config.steps.l) ELSE 0]

\* list_workflows(): the summaries (by name; their order is that of the file)
ListWorkflows ==
    LET data == LoadedFile(file, example)
    IN  /\ Len(log) < MaxOps
        /\ file' = data
        /\ log' = Append(log, Entry("list", "", NoBody,
                                    [n \in DOMAIN data.workflows |-> Summary(n, data.workflows[n])],
                                    data))
        /\ UNCHANGED <<example, actions, now, run, gate, writers, state, timer_task, tasks, calls, ready, cond>>

\* the registry of main.py
MainActions == [a \in Registered |-> ActionReturn(a)]

InitStore ==
    /\ \/ file = NoFile /\ example \in {NoFile, ExampleDocument}
       \/ file = Document([n \in {"morning"} |-> DescribedBody]) /\ example = ExampleDocument
       \/ file = Document([n \in {"morning", "night"} |->
                               IF n = "morning" THEN DescribedBody ELSE PlainBody])
            /\ example = NoFile
    /\ actions = MainActions
    /\ log = <<>>
    /\ now = 1
    /\ run = [t \in Threads |-> Idle]
    /\ gate = NoGate
    /\ writers = NoWriters
    /\ InitManager
    /\ cond = NoCond

NextStore ==
    \/ \E name \in Names, config \in ValidBodies \cup InvalidBodies : CreateWorkflow(name, config)
    \/ \E name \in Names : DeleteWorkflow(name)
    \/ \E name \in Names : GetWorkflowCall(name)
    \/ ListWorkflows

SpecStore == InitStore /\ [][NextStore]_vars

(***************************************************************************)
(* Two threads that call run() at the same time                            *)
(***************************************************************************)

TwoThreads == {"t1", "t2"}

\* message: "{{steps[0].text}}{{steps[0].message}}/{{ input.city }}"
EchoStep ==
    Step("notify",
         << <<S_message, PyStr(<<"{", "{", "s", "t", "e", "p", "s", "[", "0", "]", ".", "t", "e", "x", "t", "}", "}",
                                 "{", "{", "s", "t", "e", "p", "s", "[", "0", "]", ".", "m", "e", "s", "s", "a", "g", "e", "}", "}",
                                 "/", "{", "{", " ", "i", "n", "p", "u", "t", ".", "c", "i", "t", "y", " ", "}", "}">>)>> >>,
         <<>>, 0, <<>>, <<>>, <<>>)

\* if: "steps[0].text == 'notes'"
IfStep0Notes ==
    <<"s", "t", "e", "p", "s", "[", "0", "]", ".", "t", "e", "x", "t", " ", "=", "=", " ", "'", "n", "o", "t", "e", "s", "'">>

NotesStep == Step("open-app", <<>>, IfStep0Notes, 0, <<>>, <<>>, <<>>)

CityInput == <<InputDef(S_city, FALSE, PyStr(<<"N", "Y", "C">>))>>

\* "morning" begins with the clipboard, "night" with a notification
TwoDocument ==
    Document([n \in {"morning", "night"} |->
                  [inputs |-> CityInput,
                   steps  |-> PyList(<<IF n = "morning" THEN ProbeStep ELSE PlainStep,
                                       EchoStep, NotesStep>>)]])

InitTwo ==
    /\ file = TwoDocument
    /\ example = NoFile
    /\ actions = MainActions
    /\ log = <<>>
    /\ now = 2
    /\ run = [t \in TwoThreads |-> Idle]
    /\ gate = NoGate
    /\ writers = NoWriters
    /\ InitManager
    /\ cond = NoCond

NextTwo ==
    \/ \E t \in DOMAIN run, name \in Names, inputs \in InputChoices : StartRun(t, name, inputs)
    \/ \E t \in DOMAIN run : AdmitStep(t)
    \/ \E t \in DOMAIN run, raises \in BOOLEAN : InvokeStep(t, raises)

SpecTwo == InitTwo /\ [][NextTwo]_vars

(***************************************************************************)
(* The registry between validation and run: definitions are created, the   *)
(* process is started again with another set of registered actions, and    *)
(* the stored workflows are run                                            *)
(***************************************************************************)

\* a notification, an open-app that its condition denies after a
\* notification, then the clipboard
GatedBody == [inputs |-> <<>>, steps |-> PyList(<<PlainStep, NotesStep, ProbeStep>>)]

RegistryBodies == {GatedBody, UnknownActionBody}

\* a new engine is constructed over the same file: no action is registered,
\* and no call of run() of the old one goes on
Construct ==
    /\ actions' = NoActions
    /\ run' = [t \in DOMAIN run |-> Idle]
    /\ UNCHANGED <<file, example, now, gate, log, writers, state, timer_task, tasks, calls, ready, cond>>

\* register_action(name, func)
RegisterAction(name) ==
    /\ actions' = [a \in DOMAIN actions \cup {name} |->
                       IF a = name THEN ActionReturn(name) ELSE actions[a]]
    /\ UNCHANGED <<file, example, now, run, gate, log, writers, state, timer_task, tasks, calls, ready, cond>>

InitRegistry ==
    /\ file = NoFile
    /\ example = NoFile
    /\ actions = MainActions
    /\ log = <<>>
    /\ now = 2
    /\ run = [t \in Threads |-> Idle]
    /\ gate = NoGate
    /\ writers = NoWriters
    /\ InitManager
    /\ cond = NoCond

NextRegistry ==
    \/ \E config \in RegistryBodies : CreateWorkflow("morning", config)
    \/ Construct
    \/ \E name \in Registered : RegisterAction(name)
    \/ \E t \in DOMAIN run, name \in Names : StartRun(t, name, <<>>)
    \/ \E t \in DOMAIN run : AdmitStep(t)
    \/ \E t \in DOMAIN run : InvokeStep(t, FALSE)

SpecRegistry == InitRegistry /\ [][NextRegistry]_vars

(***************************************************************************)
(* Reads after writes: definitions are created and deleted, and listed,    *)
(* fetched and run in between                                              *)
(***************************************************************************)

\* the workflows of the file at the start
ReadStart == [n \in {"morning"} |-> DescribedBody]

ReadBodies == {PlainBody, NamedBody}

InitRead ==
    /\ file = Document(ReadStart)
    /\ example = NoFile
    /\ actions = MainActions
    /\ log = <<>>
    /\ now = 2
    /\ run = [t \in Threads |-> Idle]
    /\ gate = NoGate
    /\ writers = NoWriters
    /\ InitManager
    /\ cond = NoCond

NextRead ==
    \/ \E name \in Names, config \in ReadBodies : CreateWorkflow(name, config)
    \/ \E name \in Names : DeleteWorkflow(name)
    \/ \E name \in Names : GetWorkflowCall(name)
    \/ ListWorkflows
    \/ \E t \in DOMAIN run, name \in Names : StartRun(t, name, <<>>)
    \/ \E t \in DOMAIN run : AdmitStep(t)
    \/ \E t \in DOMAIN run : InvokeStep(t, FALSE)

SpecRead == InitRead /\ [][NextRead]_vars

(***************************************************************************)
(* Two threads inside create_workflow and delete_workflow: each loads the  *)
(* document, changes its copy and saves it, and nothing is locked between  *)
(***************************************************************************)

\* a thread that is not inside a store operation
NoWrite == [pc |-> "idle", op |-> "", name |-> "", config |-> NoBody, data |-> NoFile]

\* the threads inside a store operation, and those that have loaded
InFlight == { t \in DOMAIN writers : writers[t].pc = "loaded" }

\* create_workflow up to line 99: data = self._load_workflows()
LoadForCreate(t, name, config) ==
    LET data == LoadedFile(file, example)
    IN  /\ writers[t].pc \in {"idle", "done"}
        /\ Len(log) + Cardinality(InFlight) < MaxOps
        /\ file' = data
        /\ writers' = [writers EXCEPT ![t] = [pc |-> "loaded", op |-> "create", name |-> name,
                                              config |-> config, data |-> data]]
        /\ UNCHANGED <<example, actions, now, run, gate, log, state, timer_task, tasks, calls, ready, cond>>

\* a create_workflow that loads the document again just before it saves
SaveCreatedFresh(t) ==
    LET w      == writers[t]
        data   == LoadedFile(file, example)
        error  == ValidateWorkflowConfig(w.config, DOMAIN actions)
        saved  == IF error # NoError THEN file
                  ELSE Document(Stored(data.workflows, w.name, w.config))
        result == IF error # NoError THEN [ok |-> FALSE, error |-> error]
                  ELSE [ok |-> TRUE, workflow |-> w.config @@ [name |-> w.name]]
    IN  /\ w.pc = "loaded" /\ w.op = "create"
        /\ file' = saved
        /\ log' = Append(log, Entry("create", w.name, w.config, result, saved))
        /\ writers' = [writers EXCEPT ![t].pc = "done"]
        /\ UNCHANGED <<example, actions, now, run, gate, state, timer_task, tasks, calls, ready, cond>>

\* the rest of create_workflow: validate, assign into the copy that was
\* loaded, save the whole copy
SaveCreated(t) ==
    LET w      == writers[t]
        error  == ValidateWorkflowConfig(w.config, DOMAIN actions)
        saved  == IF error # NoError THEN file
                  ELSE Document(Stored(w.data.workflows, w.name, w.config))
        result == IF error # NoError THEN [ok |-> FALSE, error |-> error]
                  ELSE [ok |-> TRUE, workflow |-> w.config @@ [name |-> w.name]]
    IN  /\ w.pc = "loaded" /\ w.op = "create"
        /\ file' = saved
        /\ log' = Append(log, Entry("create", w.name, w.config, result, saved))
        /\ writers' = [writers EXCEPT ![t].pc = "done"]
        /\ UNCHANGED <<example, actions, now, run, gate, state, timer_task, tasks, calls, ready, cond>>

\* delete_workflow up to line 112: data = self._load_workflows()
LoadForDelete(t, name) ==
    LET data == LoadedFile(file, example)
    IN  /\ writers[t].pc \in {"idle", "done"}
        /\ Len(log) + Cardinality(InFlight) < MaxOps
        /\ file' = data
        /\ writers' = [writers EXCEPT ![t] = [pc |-> "loaded", op |-> "delete", name |-> name,
                                              config |-> NoBody, data |-> data]]
        /\ UNCHANGED <<example, actions, now, run, gate, log, state, timer_task, tasks, calls, ready, cond>>

\* the rest of delete_workflow: False if the copy does not hold the name,
\* else the name is deleted from the copy and the whole copy is saved
SaveDeleted(t) ==
    LET w     == writers[t]
        found == w.name \in DOMAIN w.data.workflows
        saved == IF found THEN Document(Removed(w.data.workflows, w.name)) ELSE file
    IN  /\ w.pc = "loaded" /\ w.op = "delete"
        /\ file' = saved
        /\ log' = Append(log, Entry("delete", w.name, NoBody, [deleted |-> found], saved))
        /\ writers' = [writers EXCEPT ![t].pc = "done"]
        /\ UNCHANGED <<example, actions, now, run, gate, state, timer_task, tasks, calls, ready, cond>>

WriterBodies == {PlainBody, NamedBody, UnknownActionBody}

InitWriters ==
    /\ \/ file = NoFile
       \/ file = Document(ReadStart)
    /\ example = NoFile
    /\ actions = MainActions
    /\ log = <<>>
    /\ now = 2
    /\ run = [t \in Threads |-> Idle]
    /\ gate = NoGate
    /\ writers = [t \in TwoThreads |-> NoWrite]
    /\ InitManager
    /\ cond = NoCond

NextWriters ==
    \/ \E t \in DOMAIN writers, name \in Names, config \in WriterBodies :
           LoadForCreate(t, name, config)
    \/ \E t \in DOMAIN writers : SaveCreated(t)
    \/ \E t \in DOMAIN writers, name \in Names : LoadForDelete(t, name)
    \/ \E t \in DOMAIN writers : SaveDeleted(t)

SpecWriters == InitWriters /\ [][NextWriters]_vars

(***************************************************************************)
(* Runs of a workflow whose second step has a message made of literal      *)
(* text and tokens, some of which cannot be evaluated                      *)
(***************************************************************************)

MaxParts == 3

\* the parts a message is made of: literal text, tokens that evaluate, and
\* tokens whose index int() refuses
LiteralPart == [kind |-> "literal", text |-> <<"a", " ">>]

CityPart == [kind |-> "city", text |-> <<"{", "{", " ", "i", "n", "p", "u", "t", ".", "c", "i", "t", "y", " ", "}", "}">>]

FirstPart == [kind |-> "first", text |-> <<"{", "{", "s", "t", "e", "p", "s", "[", "0", "]", ".", "m", "e", "s", "s", "a", "g", "e", "}", "}">>]

FieldRaisesPart == [kind |-> "raises", text |-> <<"{", "{", " ", "s", "t", "e", "p", "s", "[", "9", "9", "9", "9", "9", "]", ".", "t", "e", "x", "t", " ", "}", "}">>]

StepRaisesPart == [kind |-> "raises", text |-> <<"{", "{", "s", "t", "e", "p", "s", "[", "0", "0", "0", "0", "0", "]", "}", "}">>]

Parts == {LiteralPart, CityPart, FirstPart, FieldRaisesPart, StepRaisesPart}

Templates == SeqsUpTo(Parts, MaxParts) \ {<<>>}

RECURSIVE TemplateText(_)
TemplateText(parts) ==
    IF parts = <<>> THEN <<>> ELSE Head(parts).text \o TemplateText(Tail(parts))

\* a notify whose message is the text of the template
TemplateStep(parts) ==
    Step("notify", << <<S_message, PyStr(TemplateText(parts))>> >>, <<>>, 0, <<>>, <<>>, <<>>)

InitSoftFail ==
    /\ file \in { Document([n \in {"morning"} |->
                               [inputs |-> CityInput,
                                steps  |-> PyList(<<PlainStep, TemplateStep(parts)>>)]]) :
                  parts \in Templates }
    /\ example = NoFile
    /\ actions = MainActions
    /\ log = <<>>
    /\ now = 2
    /\ run = [t \in Threads |-> Idle]
    /\ gate = NoGate
    /\ writers = NoWriters
    /\ InitManager
    /\ cond = NoCond

NextSoftFail ==
    \/ \E t \in DOMAIN run, inputs \in InputChoices : StartRun(t, "morning", inputs)
    \/ \E t \in DOMAIN run : AdmitStep(t)
    \/ \E t \in DOMAIN run, raises \in BOOLEAN : InvokeStep(t, raises)

SpecSoftFail == InitSoftFail /\ [][NextSoftFail]_vars

(***************************************************************************)
(* The condition evaluator on its own: every condition of up to MaxTokens  *)
(* operands and operators, against each of the run-time inputs             *)
(***************************************************************************)

MaxTokens == 3

\* what a condition is written with: references to inputs, literals, the
\* six operators, a lone "="
CondTokens ==
    { <<"i", "n", "p", "u", "t", ".", "n">>, <<"i", "n", "p", "u", "t", ".", "c", "i", "t", "y">>, <<"5">>, <<"2">>, <<" ">>, <<"'", "L", "A", "'">>,
      <<"!", "=">>, <<"=", "=">>, <<">", "=">>, <<"<", "=">>, <<">">>, <<"<">>, <<"=">> }

RECURSIVE Concat(_)
Concat(texts) == IF texts = <<>> THEN <<>> ELSE Head(texts) \o Concat(Tail(texts))

Conditions == { Concat(tokens) : tokens \in SeqsUpTo(CondTokens, MaxTokens) \ {<<>>} }

InitCond ==
    /\ file = NoFile
    /\ example = NoFile
    /\ actions = NoActions
    /\ log = <<>>
    /\ now = 2
    /\ run = [t \in Threads |-> Idle]
    /\ gate = NoGate
    /\ writers = NoWriters
    /\ InitManager
    /\ cond \in [condition : Conditions, input : InputChoices, evaluated : {FALSE},
                 split : {NoSplit}, value : {FALSE}]

\* _evaluate_condition(condition, context) is called in step 0 of a run with
\* these inputs
CallEvaluateCondition ==
    LET context == [input |-> cond.input, steps |-> <<>>]
    IN  /\ ~cond.evaluated
        /\ ~ConditionRaises(cond.condition, context, Clock[now])
        /\ cond' = [cond EXCEPT !.evaluated = TRUE,
                                !.split = SplitCondition(cond.condition),
                                !.value = EvaluateCondition(cond.condition, context, Clock[now])]
        /\ UNCHANGED <<file, example, actions, now, run, gate, log, writers, state, timer_task, tasks, calls, ready>>

NextCond == CallEvaluateCondition

SpecCond == InitCond /\ [][NextCond]_vars

(***************************************************************************)
(* Runs of a workflow whose first step has a comparison for condition:     *)
(* every operator between operands that are numbers, texts, missing, or an *)
(* integer that float() does not take                                      *)
(***************************************************************************)

\* the run-time inputs: none, a number, a number as text, an integer beyond
\* the range of float
CastInputs ==
    { <<>>,
      << <<S_n, PyInt(5)>>, <<S_city, PyStr(<<"L", "A">>)>> >>,
      << <<S_n, PyStr(<<"5">>)>> >>,
      << <<S_n, PyInt(FloatMax + 1)>> >> }

LeftOperands == { <<"i", "n", "p", "u", "t", ".", "n">>, <<"i", "n", "p", "u", "t", ".", "c", "i", "t", "y">> }

RightOperands == { <<"5">>, <<"2", ".", "5">>, <<"'", "5", "'">>, <<"i", "n", "p", "u", "t", ".", "n">>, <<"1", "0", "0", "0">> }

Comparisons ==
    { left \o <<" ">> \o Operators[k] \o <<" ">> \o right :
          left \in LeftOperands, k \in 1..Len(Operators), right \in RightOperands }

\* a notify with the comparison for condition
ComparisonStep(condition) == Step("notify", <<>>, condition, 0, <<>>, <<>>, <<>>)

InitCast ==
    /\ file \in { Document([n \in {"morning"} |->
                               [inputs |-> <<>>,
                                steps  |-> PyList(<<ComparisonStep(condition), PlainStep>>)]]) :
                  condition \in Comparisons }
    /\ example = NoFile
    /\ actions = MainActions
    /\ log = <<>>
    /\ now = 2
    /\ run = [t \in Threads |-> Idle]
    /\ gate = NoGate
    /\ writers = NoWriters
    /\ InitManager
    /\ cond = NoCond

NextCast ==
    \/ \E t \in DOMAIN run, inputs \in CastInputs : StartRun(t, "morning", inputs)
    \/ \E t \in DOMAIN run : AdmitStep(t)
    \/ \E t \in DOMAIN run : InvokeStep(t, FALSE)

SpecCast == InitCast /\ [][NextCast]_vars

(***************************************************************************)
(* The pomodoro manager on the server's event loop. The loop runs one      *)
(* callback of its queue at a time: the coroutine of a request, the step   *)
(* of a timer task, the resumption of a coroutine that awaited a task. A   *)
(* coroutine of start, stop or skip gives way only in _cancel_timer, where *)
(* it awaits a task that is not done.                                      *)
(***************************************************************************)

MaxTasks == 4

MaxCalls == 3

\* the seconds from the start of the month to a clock reading
Epoch(t) == ParseNat(Drop(t.date, 8)) * 86400 + t.h * 3600 + t.m * 60 + t.s

\* time_remaining; start_time is the clock's index when the phase started
TimeRemaining(s, t) ==
    IF ~s.active \/ s.start_time = None THEN 0
    ELSE LET elapsed == Epoch(Clock[t]) - Epoch(Clock[s.start_time])
             remaining == s.duration_minutes * 60 - elapsed
         IN  IF remaining < 0 THEN 0 ELSE remaining

\* time_remaining_formatted: MM:SS
TimeRemainingFormatted(s, t) ==
    LET remaining == TimeRemaining(s, t)
    IN  ZeroPad(NatToStr(remaining \div 60), 2) \o <<":">> \o ZeroPad(NatToStr(remaining % 60), 2)

\* get_status(); "None" and the empty text stand for None
GetStatus(s, t) ==
    [active |-> s.active,
     session_type |-> IF s.active THEN s.session_type ELSE "None",
     time_remaining_seconds |-> TimeRemaining(s, t),
     time_remaining |-> IF s.active THEN TimeRemainingFormatted(s, t) ELSE <<>>,
     sessions_completed |-> s.sessions_completed,
     work_duration |-> s.work_duration,
     break_duration |-> s.break_duration,
     focus_mode_enabled |-> s.focus_mode_enabled]

\* what a call returns: nothing yet, {"error": ...}, get_status(), or the
\* mapping of stop
NoReturn == [t |-> "none"]

Error(message) == [t |-> "error", error |-> message]

Status(s, t) == [t |-> "status", status |-> GetStatus(s, t)]

Stopped(sessions, original_volume) ==
    [t |-> "stopped", stopped |-> TRUE, sessions_completed |-> sessions,
     original_volume |-> original_volume]

\* the defaults of start's parameters
NoArgs == [work_duration |-> 25, break_duration |-> 5, focus_mode |-> TRUE, original_volume |-> None]

\* the arguments of start: durations in minutes, focus mode with the volume
\* level read before muting
StartArgs ==
    { [work_duration |-> 25, break_duration |-> 5, focus_mode |-> FALSE, original_volume |-> None],
      [work_duration |-> 50, break_duration |-> 10, focus_mode |-> TRUE, original_volume |-> 40] }

\* what arrives at the server: the three requests, and runs of a workflow
\* whose step invokes pomodoro-start or pomodoro-stop
Requests ==
    [op : {"start", "pomodoro-start"}, args : StartArgs]
        \cup [op : {"stop", "skip", "pomodoro-stop"}, args : {NoArgs}]

\* a call that has arrived and waits in the loop's queue
Call(op, args) == [op |-> op, args |-> args, pc |-> "queued", awaits |-> None, result |-> NoReturn]

\* the call returns; the future of a start scheduled by pomodoro-start is
\* not awaited, its result is dropped
Return(c, value) ==
    [c EXCEPT !.pc = "returned", !.result = IF c.op = "pomodoro-start" THEN @ ELSE value]

\* asyncio.create_task(self._run_timer()): the task has not run yet
Task(status) ==
    [status |-> status, duration_seconds |-> None, callbacks |-> <<>>,
     callback |-> "none", notified |-> FALSE]

\* Task.done()
Done(task) == task.status \in {"cancelled", "finished", "failed"}

\* the entries of the loop's queue
CallItem(k) == [kind |-> "call", id |-> k]

TaskItem(id) == [kind |-> "task", id |-> id]

\* the tasks that calls and expired timers of the queue are still to create
Reserved ==
    Cardinality({ k \in 1..Len(calls) : calls[k].pc # "returned"
                                        /\ calls[k].op \in {"start", "skip", "pomodoro-start"} })
        + Cardinality({ id \in 1..Len(tasks) : tasks[id].status = "expired" })

\* a request arrives: its handler is queued
Request(op, args) ==
    /\ Len(calls) < MaxCalls
    /\ Len(tasks) + Reserved + (IF op \in {"start", "skip", "pomodoro-start"} THEN 1 ELSE 0) <= MaxTasks
    /\ calls' = Append(calls, Call(op, args))
    /\ ready' = Append(ready, CallItem(Len(calls) + 1))
    /\ UNCHANGED <<file, example, actions, now, run, gate, log, writers, state, timer_task, tasks, cond>>

StartBreakWorkDuration(s, t) ==
    [s EXCEPT !.session_type = "break", !.duration_minutes = s.work_duration, !.start_time = t]

\* _start_work and _start_break up to create_task
StartWork(s, t) ==
    [s EXCEPT !.session_type = "work", !.duration_minutes = s.work_duration, !.start_time = t]

StartBreak(s, t) ==
    [s EXCEPT !.session_type = "break", !.duration_minutes = s.break_duration, !.start_time = t]

\* self._timer_task = asyncio.create_task(self._run_timer()), by the
\* callback at the head of the queue
CreateTask(ts) ==
    /\ tasks' = Append(ts, Task("created"))
    /\ timer_task' = Len(ts) + 1
    /\ ready' = Append(Tail(ready), TaskItem(Len(ts) + 1))

\* _cancel_timer has a task to cancel
TimerPending == timer_task # None /\ ~Done(tasks[timer_task])

\* _cancel_timer up to its await: cancel() wakes a sleeping task with
\* CancelledError (a task that is already queued keeps its place), and
\* call k waits for the task to be done
CancelTimer(k) ==
    /\ tasks' = [tasks EXCEPT ![timer_task].status = "cancelling",
                              ![timer_task].callbacks = Append(@, CallItem(k))]
    /\ ready' = IF tasks[timer_task].status = "sleeping"
                THEN Append(Tail(ready), TaskItem(timer_task))
                ELSE Tail(ready)
    /\ calls' = [calls EXCEPT ![k].pc = "awaiting", ![k].awaits = timer_task]
    /\ UNCHANGED <<state, timer_task>>

StartCoroutineRestarts(k) ==
    LET c == calls[k]
        started == [state EXCEPT !.active = TRUE, !.session_type = "work", !.start_time = now,
                                 !.duration_minutes = c.args.work_duration,
                                 !.work_duration = c.args.work_duration,
                                 !.break_duration = c.args.break_duration,
                                 !.sessions_completed = 0]
    IN  IF c.pc # "awaiting" /\ TimerPending
        THEN CancelTimer(k)
        ELSE /\ state' = started
             /\ CreateTask(tasks)
             /\ calls' = [calls EXCEPT ![k] = Return(c, Status(started, now))]

\* start(): from its first line when call k runs, from the line after
\* _cancel_timer's await (self._timer_task = None) when it resumes
StartCoroutine(k) ==
    LET c == calls[k]
        started == [active |-> TRUE, session_type |-> "work", start_time |-> now,
                    duration_minutes |-> c.args.work_duration,
                    work_duration |-> c.args.work_duration,
                    break_duration |-> c.args.break_duration,
                    sessions_completed |-> 0,
                    focus_mode_enabled |-> c.args.focus_mode,
                    original_volume |-> c.args.original_volume]
    IN  IF c.pc # "awaiting" /\ state.active
        THEN /\ calls' = [calls EXCEPT ![k] = Return(c, Error("Pomodoro already active"))]
             /\ ready' = Tail(ready)
             /\ UNCHANGED <<state, timer_task, tasks>>
        ELSE IF c.pc # "awaiting" /\ TimerPending
        THEN CancelTimer(k)
        ELSE /\ state' = started
             /\ CreateTask(tasks)
             /\ calls' = [calls EXCEPT ![k] = Return(c, Status(started, now))]

\* the handler of POST /pomodoro/start and PomodoroManager.start
Start ==
    /\ ready # <<>>
    /\ Head(ready).kind = "call"
    /\ calls[Head(ready).id].op = "start"
    /\ StartCoroutine(Head(ready).id)
    /\ UNCHANGED <<file, example, actions, now, run, gate, log, writers, cond>>

\* the handler of POST /pomodoro/stop and PomodoroManager.stop
Stop ==
    /\ ready # <<>>
    /\ Head(ready).kind = "call"
    /\ LET k == Head(ready).id
           c == calls[k]
       IN  /\ c.op = "stop"
           /\ IF c.pc # "awaiting" /\ ~state.active
              THEN /\ calls' = [calls EXCEPT ![k] = Return(c, Error("No active pomodoro"))]
                   /\ ready' = Tail(ready)
                   /\ UNCHANGED <<state, timer_task, tasks>>
              ELSE IF c.pc # "awaiting" /\ TimerPending
              THEN CancelTimer(k)
              ELSE /\ state' = PomodoroState
                   /\ timer_task' = None
                   /\ calls' = [calls EXCEPT ![k] =
                                    Return(c, Stopped(state.sessions_completed, state.original_volume))]
                   /\ ready' = Tail(ready)
                   /\ UNCHANGED tasks
    /\ UNCHANGED <<file, example, actions, now, run, gate, log, writers, cond>>

\* a skip that counts a session whatever the phase it skips
SkipCountsBreak ==
    /\ ready # <<>>
    /\ Head(ready).kind = "call"
    /\ LET k == Head(ready).id
           c == calls[k]
           counted == [state EXCEPT !.sessions_completed = @ + 1]
           next == IF state.session_type = "work"
                   THEN StartBreak(counted, now)
                   ELSE StartWork(counted, now)
       IN  /\ c.op = "skip"
           /\ IF c.pc # "awaiting" /\ ~state.active
              THEN /\ calls' = [calls EXCEPT ![k] = Return(c, Error("No active pomodoro"))]
                   /\ ready' = Tail(ready)
                   /\ UNCHANGED <<state, timer_task, tasks>>
              ELSE IF c.pc # "awaiting" /\ TimerPending
              THEN CancelTimer(k)
              ELSE /\ state' = next
                   /\ CreateTask(tasks)
                   /\ calls' = [calls EXCEPT ![k] = Return(c, Status(next, now))]
    /\ UNCHANGED <<file, example, actions, now, run, gate, log, writers, cond>>

\* the handler of POST /pomodoro/skip and PomodoroManager.skip
Skip ==
    /\ ready # <<>>
    /\ Head(ready).kind = "call"
    /\ LET k == Head(ready).id
           c == calls[k]
           next == IF state.session_type = "work"
                   THEN StartBreak([state EXCEPT !.sessions_completed = @ + 1], now)
                   ELSE StartWork(state, now)
       IN  /\ c.op = "skip"
           /\ IF c.pc # "awaiting" /\ ~state.active
              THEN /\ calls' = [calls EXCEPT ![k] = Return(c, Error("No active pomodoro"))]
                   /\ ready' = Tail(ready)
                   /\ UNCHANGED <<state, timer_task, tasks>>
              ELSE IF c.pc # "awaiting" /\ TimerPending
              THEN CancelTimer(k)
              ELSE /\ state' = next
                   /\ CreateTask(tasks)
                   /\ calls' = [calls EXCEPT ![k] = Return(c, Status(next, now))]
    /\ UNCHANGED <<file, example, actions, now, run, gate, log, writers, cond>>

\* run_workflow is a coroutine of the server's loop, so get_running_loop()
\* succeeds and loop.is_running() holds whenever an action is invoked
LoopIsRunning == TRUE

\* _workflow_pomodoro_start, invoked by a step of a run: start() is handed
\* to the loop with ensure_future and the status of this moment is returned;
\* the scheduled start runs when the loop comes to it
WorkflowPomodoroStart ==
    /\ ready # <<>>
    /\ Head(ready).kind = "call"
    /\ LET k == Head(ready).id
           c == calls[k]
       IN  /\ c.op = "pomodoro-start"
           /\ IF c.pc = "queued"
              THEN /\ LoopIsRunning
                   /\ calls' = [calls EXCEPT ![k].pc = "scheduled", ![k].result = Status(state, now)]
                   /\ ready' = Append(Tail(ready), CallItem(k))
                   /\ UNCHANGED <<state, timer_task, tasks>>
              ELSE StartCoroutine(k)
    /\ UNCHANGED <<file, example, actions, now, run, gate, log, writers, cond>>

\* _workflow_pomodoro_stop, invoked by a step of a run: with the loop
\* running it returns at once, and stop() is not called
WorkflowPomodoroStop ==
    /\ ready # <<>>
    /\ Head(ready).kind = "call"
    /\ LET k == Head(ready).id
           c == calls[k]
       IN  /\ c.op = "pomodoro-stop"
           /\ LoopIsRunning
           /\ calls' = [calls EXCEPT ![k].pc = "returned",
                                     ![k].result = [t |-> "stopped", stopped |-> TRUE,
                                                    sessions_completed |-> state.sessions_completed]]
    /\ ready' = Tail(ready)
    /\ UNCHANGED <<file, example, actions, now, run, gate, log, writers, state, timer_task, tasks, cond>>

\* asyncio.sleep(duration_seconds) is over: the task is queued to go on
TimerExpires(id) ==
    /\ tasks[id].status = "sleeping"
    /\ Len(tasks) + Reserved < MaxTasks
    /\ tasks' = [tasks EXCEPT ![id].status = "expired"]
    /\ ready' = Append(ready, TaskItem(id))
    /\ UNCHANGED <<file, example, actions, now, run, gate, log, writers, state, timer_task, calls, cond>>

\* on_work_session_complete and on_break_complete: whether an exception of
\* send_notification or speak_text leaves the callback. Both catch Exception.
OnCompleteUnguarded(raises) == raises

OnWorkSessionComplete(raises) == FALSE

OnBreakComplete(raises) == FALSE

\* _run_timer, the task at the head of the queue: its first step reads the
\* duration and sleeps; a task asked to cancel ends in its except clause (or
\* before its first line) and the coroutines that await it are queued in
\* the order they began to wait; a task whose sleep is over ends the phase.
\* raises: the notification of the callback fails
RunTimer(raises) ==
    /\ ready # <<>>
    /\ Head(ready).kind = "task"
    /\ LET id == Head(ready).id
           task == tasks[id]
           work == state.session_type = "work"
           counted == IF work THEN [state EXCEPT !.sessions_completed = @ + 1] ELSE state
           escapes == IF work THEN OnWorkSessionComplete(raises) ELSE OnBreakComplete(raises)
           ended == [task EXCEPT !.status = IF escapes THEN "failed" ELSE "finished",
                                 !.callback = IF work THEN "session" ELSE "break",
                                 !.notified = ~raises]
       IN  IF task.status = "created"
           THEN /\ tasks' = [tasks EXCEPT ![id].status = "sleeping",
                                          ![id].duration_seconds = state.duration_minutes * 60]
                /\ ready' = Tail(ready)
                /\ UNCHANGED <<state, timer_task>>
           ELSE IF task.status = "cancelling"
           THEN /\ tasks' = [tasks EXCEPT ![id].status = "cancelled", ![id].callbacks = <<>>]
                /\ ready' = Tail(ready) \o task.callbacks
                /\ UNCHANGED <<state, timer_task>>
           ELSE IF escapes
           THEN /\ state' = counted
                /\ tasks' = [tasks EXCEPT ![id] = ended]
                /\ ready' = Tail(ready)
                /\ UNCHANGED timer_task
           ELSE /\ state' = IF work THEN StartBreak(counted, now) ELSE StartWork(counted, now)
                /\ CreateTask([tasks EXCEPT ![id] = ended])
    /\ UNCHANGED <<file, example, actions, now, run, gate, log, writers, calls, cond>>

InitPomodoro ==
    /\ file = NoFile
    /\ example = NoFile
    /\ actions = NoActions
    /\ log = <<>>
    /\ now = 1
    /\ run = [t \in Threads |-> Idle]
    /\ gate = NoGate
    /\ writers = NoWriters
    /\ InitManager
    /\ cond = NoCond

NextPomodoro ==
    \/ \E r \in Requests : Request(r.op, r.args)
    \/ Start
    \/ Stop
    \/ Skip
    \/ WorkflowPomodoroStart
    \/ WorkflowPomodoroStop
    \/ \E id \in 1..Len(tasks) : TimerExpires(id)
    \/ \E raises \in BOOLEAN : RunTimer(raises)
    \/ Tick

SpecPomodoro == InitPomodoro /\ [][NextPomodoro]_vars

\* the requests alone, with the timers: the loop runs the callbacks of its
\* queue
RunOnce ==
    \/ Start
    \/ Stop
    \/ Skip
    \/ \E raises \in BOOLEAN : RunTimer(raises)

NextPomodoroLive ==
    \/ \E r \in { q \in Requests : q.op \in {"start", "stop", "skip"} } : Request(r.op, r.args)
    \/ \E id \in 1..Len(tasks) : TimerExpires(id)
    \/ RunOnce

\* the loop keeps running, and every sleep comes to its end
SpecPomodoroLive ==
    /\ InitPomodoro
    /\ [][NextPomodoroLive]_vars
    /\ WF_vars(RunOnce)
    /\ WF_vars(\E id \in 1..Len(tasks) : TimerExpires(id))

(***************************************************************************)
(* _evaluate_condition on conditions that hold no comparison operator:     *)
(* the literals in several letter cases, and expressions whose value is a  *)
(* text, a number, a boolean, None, a list or a mapping                    *)
(***************************************************************************)

S_v == <<"v">>

\* the run-time inputs: none, or v with a value of every kind
TruthyInputs ==
    { <<>> } \cup
    { << <<S_v, value>> >> :
        value \in { PyStr(<<"L", "A">>), EmptyStr, PyStr(S_false), PyInt(0), PyInt(5),
                    PyFloat(0, 1), PyBool(TRUE), PyBool(FALSE), PyNone,
                    PyList(<<>>), PyList(<<PyInt(0)>>), PyDict(<<>>),
                    PyDict(<< <<S_v, EmptyStr>> >>) } }

\* conditions without a comparison operator
TruthyConditions ==
    { S_true, <<"T", "r", "u", "e">>, <<"T", "R", "U", "E">>,
      S_false, <<"F", "a", "l", "s", "e">>, <<"f", "A", "L", "s", "E">>,
      <<" ">> \o S_true,
      S_input \o S_v, <<" ">> \o S_input \o S_v \o <<" ">>, S_input \o S_city,
      S_input \o S_v \o <<" ", "=", " ", "5">>,
      <<"n", "o", "t", "h", "i", "n", "g">>, S_time,
      S_steps \o <<"0", "]">>, S_steps \o <<"0", "]", ".">> \o S_text }

InitTruthy ==
    /\ file = NoFile
    /\ example = NoFile
    /\ actions = NoActions
    /\ log = <<>>
    /\ now = 2
    /\ run = [t \in Threads |-> Idle]
    /\ gate = NoGate
    /\ writers = NoWriters
    /\ InitManager
    /\ cond \in [condition : TruthyConditions, input : TruthyInputs, evaluated : {FALSE},
                 split : {NoSplit}, value : {FALSE}]

NextTruthy == CallEvaluateCondition

SpecTruthy == InitTruthy /\ [][NextTruthy]_vars

(***************************************************************************)
(* The loop of run() over steps that have a delay (positive or not), a     *)
(* time window or a condition, with a registry that may lack an action,    *)
(* while the clock moves on                                                *)
(***************************************************************************)

\* delay: 2, the message holds the token time
WaitStep ==
    Step("notify", << <<S_message, PyStr(<<"a", "t", " ", "{", "{", " ", "t", "i", "m", "e", " ", "}", "}">>)>> >>,
         <<>>, 2, <<>>, <<>>, <<>>)

\* delay: -1
NegativeDelayStep ==
    Step("clipboard-get", <<>>, <<>>, 0 - 1, <<>>, <<>>, <<>>)

\* time_after: "10:00", time_before: "23:00", delay: 1
WindowWaitStep ==
    Step("open-app", << <<S_app, PyStr(<<"{", "{", " ", "t", "i", "m", "e", " ", "}", "}">>)>> >>,
         <<>>, 1, T1000, T2300, <<>>)

\* if: "input.n > 3", delay: 2
GuardedOpenStep ==
    Step("open-app", << <<S_app, PyStr(<<"m", "a", "i", "l">>)>> >>,
         <<"i", "n", "p", "u", "t", ".", "n", " ", ">", " ", "3">>, 2, <<>>, <<>>, <<>>)

LoopSteps == {WaitStep, NegativeDelayStep, WindowWaitStep, GuardedOpenStep}

\* the registry of main.py, and one where open-app was not registered
LoopRegistries ==
    { MainActions, [a \in Registered \ {"open-app"} |-> ActionReturn(a)] }

InitLoop ==
    /\ file \in { Document([n \in {"morning"} |-> [inputs |-> <<>>, steps |-> PyList(q)]]) :
                      q \in SeqsUpTo(LoopSteps, MaxSteps) \ {<<>>} }
    /\ example = NoFile
    /\ actions \in LoopRegistries
    /\ log = <<>>
    /\ now = 1
    /\ run = [t \in Threads |-> Idle]
    /\ gate = NoGate
    /\ writers = NoWriters
    /\ InitManager
    /\ cond = NoCond

NextLoop ==
    \/ \E t \in DOMAIN run, inputs \in InputChoices :
           run[t].pc = "idle" /\ StartRun(t, "morning", inputs)
    \/ \E t \in DOMAIN run : AdmitStep(t)
    \/ \E t \in DOMAIN run : DelayStep(t)
    \/ \E t \in DOMAIN run, raises \in BOOLEAN : InvokeStep(t, raises)
    \/ Tick

SpecLoop == InitLoop /\ [][NextLoop]_vars

(***************************************************************************)
(* Steps whose parameters and conditions refer to the outcome of a step:   *)
(* an earlier one, the step itself, a later one                            *)
(***************************************************************************)

\* "steps[n]"
StepRef(n) == S_steps \o IntToStr(n) \o <<"]">>

\* "{{ expr }}"
Token(expr) == <<"{", "{", " ">> \o expr \o <<" ", "}", "}">>

\* params: {message: "{{ steps[n].text }}", title: "{{ steps[n] }}"}
ParamRefStep(n) ==
    Step("notify",
         << <<S_message, PyStr(Token(StepRef(n) \o <<".">> \o S_text))>>,
            <<S_title, PyStr(Token(StepRef(n)))>> >>,
         <<>>, 0, <<>>, <<>>, <<>>)

\* if: "steps[n].success"
CondRefStep(n) ==
    Step("open-app", << <<S_app, PyStr(<<"m", "a", "i", "l">>)>> >>,
         StepRef(n) \o <<".">> \o S_success, 0, <<>>, <<>>, <<>>)

RefSteps ==
    {WindowStep} \cup { ParamRefStep(n) : n \in 0..(MaxSteps - 1) }
                 \cup { CondRefStep(n) : n \in 0..(MaxSteps - 1) }

InitRefs ==
    /\ file \in { Document([n \in {"morning"} |-> [inputs |-> <<>>, steps |-> PyList(q)]]) :
                      q \in SeqsUpTo(RefSteps, MaxSteps) \ {<<>>} }
    /\ example = NoFile
    /\ actions = MainActions
    /\ log = <<>>
    /\ now \in 1..2
    /\ run = [t \in Threads |-> Idle]
    /\ gate = NoGate
    /\ writers = NoWriters
    /\ InitManager
    /\ cond = NoCond

NextRefs ==
    \/ \E t \in DOMAIN run : run[t].pc = "idle" /\ StartRun(t, "morning", <<>>)
    \/ \E t \in DOMAIN run : AdmitStep(t)
    \/ \E t \in DOMAIN run : InvokeStep(t, FALSE)

SpecRefs == InitRefs /\ [][NextRefs]_vars

(***************************************************************************)
(* A run of "morning" while create_workflow and delete_workflow change     *)
(* that workflow in the store                                              *)
(***************************************************************************)

\* the definition the runs start with
SnapshotBody == [inputs |-> CityInput, steps |-> PyList(<<ProbeStep, EchoStep, NotesStep>>)]

\* the definitions the writers put in its place: other steps, other params
SnapshotBodies ==
    { PlainBody, [inputs |-> <<>>, steps |-> PyList(<<PlainStep, NotesStep, EchoStep>>)] }

InitSnapshot ==
    /\ \/ file = Document([n \in {"morning"} |-> SnapshotBody]) /\ example = NoFile
       \/ file = NoFile /\ example = Document([n \in {"morning"} |-> SnapshotBody])
    /\ actions = MainActions
    /\ log = <<>>
    /\ now = 2
    /\ run = [t \in Threads |-> Idle]
    /\ gate = NoGate
    /\ writers = NoWriters
    /\ InitManager
    /\ cond = NoCond

NextSnapshot ==
    \/ \E config \in SnapshotBodies : CreateWorkflow("morning", config)
    \/ DeleteWorkflow("morning")
    \/ \E t \in DOMAIN run, inputs \in InputChoices : StartRun(t, "morning", inputs)
    \/ \E t \in DOMAIN run : AdmitStep(t)
    \/ \E t \in DOMAIN run : InvokeStep(t, FALSE)

SpecSnapshot == InitSnapshot /\ [][NextSnapshot]_vars

(***************************************************************************)
(* Properties                                                              *)
(***************************************************************************)

\* the minute of the day of a clock reading, and of an HH:MM text
MinuteOfDay(t) == 60 * t.h + t.m

MinuteOfText(hhmm) == 60 * ParseNat(SubSeq(hhmm, 1, 2)) + ParseNat(SubSeq(hhmm, 4, 5))

DayPasses(days, t) == days = <<>> \/ t.day \in Range(days)

AfterPasses(time_after, t) ==
    time_after = <<>> \/ MinuteOfDay(t) >= MinuteOfText(time_after)

BeforePasses(time_before, t) ==
    time_before = <<>> \/ MinuteOfDay(t) < MinuteOfText(time_before)

\* what the gate is meant to decide, in minutes of the day
Admits(time_after, time_before, days, t) ==
    DayPasses(days, t) /\ AfterPasses(time_after, t) /\ BeforePasses(time_before, t)

\* C7: the gate admits exactly when the weekday is allowed (or no days are
\* set), the time is not before time_after (or it is unset) and is before
\* time_before (or it is unset); a denial gives the first failing check in
\* the order day, too early, too late; with no days set the day check passes.
C7_GateAdmitsIff ==
    LET day    == DayPasses(gate.days, gate.at)
        after  == AfterPasses(gate.time_after, gate.at)
        before == BeforePasses(gate.time_before, gate.at)
    IN  gate.checked =>
            /\ ((gate.reason = NoReason) <=> (day /\ after /\ before))
            /\ (~day => (gate.reason.why = "not scheduled" /\ gate.reason.only = gate.days))
            /\ ((day /\ ~after) => gate.reason.why = "too early")
            /\ ((day /\ after /\ ~before) => gate.reason.why = "too late")
            /\ (gate.days = <<>> => gate.reason.why # "not scheduled")

\* C7 witness: a window and a list of days are set, the day and time_after
\* pass and the gate denies at the very minute of time_before
C7_Witness ==
    /\ gate.checked
    /\ gate.days # <<>> /\ gate.time_after # <<>>
    /\ gate.time_before = StrfHM(gate.at.h, gate.at.m)
    /\ gate.reason.why = "too late"


\* the positions of the events of one kind of step i in the trace of a frame
Events(f, kind, i) ==
    { k \in 1..Len(f.trace) : f.trace[k].ev = kind /\ f.trace[k].step = i }

\* the action step i declares
Declared(f, i) == f.workflow.steps[i + 1].action

\* C1: when the action of step i raises, the run fails at once with an error
\* naming i and the action: the raising call is the last thing the run did
\* (no retry, nothing of a later step), the step has no result, no Run Result
\* is returned and the calls of the earlier ok steps stay made.
C1_FailFast ==
    \A t \in DOMAIN run :
        LET f == run[t]
        IN  \A k \in 1..Len(f.trace) :
                (f.trace[k].ev = "call" /\ f.trace[k].raised) =>
                    LET i == f.trace[k].step
                    IN  /\ k = Len(f.trace)
                        /\ f.pc = "failed"
                        /\ f.error = [kind |-> "step failed", step |-> i,
                                      action |-> Declared(f, i)]
                        /\ Events(f, "call", i) = {k}
                        /\ \A e \in 1..Len(f.trace) : f.trace[e].step <= i
                        /\ Len(f.results) = i /\ Len(f.context.steps) = i
                        /\ f.result = NoResult
                        /\ \A j \in 0..(i - 1) :
                               f.results[j + 1].status = "ok" =>
                                   \E e \in Events(f, "call", j) : ~f.trace[e].raised

\* C1 witness: the second of three steps raised after the first had ended ok
C1_Witness ==
    \E t \in DOMAIN run :
        /\ run[t].pc = "failed" /\ run[t].error.kind = "step failed"
        /\ run[t].error.step = 1
        /\ Len(run[t].workflow.steps) = 3
        /\ run[t].results[1].status = "ok"

\* C2: the steps of a run are processed in increasing index order, each once
\* at most, and as declared: the events of the trace never go back to an
\* earlier step, the gate of step j is the (j+1)-th gate, and when the action
\* of step j is called every earlier step has its result, ok or skipped.
C2_InOrder ==
    \A t \in DOMAIN run :
        LET f == run[t]
        IN  /\ \A k, e \in 1..Len(f.trace) : k < e => f.trace[k].step <= f.trace[e].step
            /\ \A k \in 1..Len(f.trace) :
                   /\ f.trace[k].ev = "gate" =>
                          /\ Events(f, "gate", f.trace[k].step) = {k}
                          /\ f.trace[k].step =
                                 Cardinality({ e \in 1..(k - 1) : f.trace[e].ev = "gate" })
                   /\ f.trace[k].ev = "call" =>
                          /\ Events(f, "call", f.trace[k].step) = {k}
                          /\ f.trace[k].action = Declared(f, f.trace[k].step)
                          /\ Len(f.results) >= f.trace[k].step
                          /\ Events(f, "gate", f.trace[k].step) # {}
            /\ \A k \in 1..Len(f.results) :
                   /\ f.results[k].step = k - 1
                   /\ f.results[k].action = Declared(f, k - 1)
                   /\ f.results[k].status \in {"ok", "skipped"}
            /\ Len(f.results) <= Len(f.workflow.steps)

\* C2 witness: a run of three steps has ended with the second and the third
\* action called
C2_Witness ==
    \E t \in DOMAIN run :
        /\ run[t].pc = "done" /\ Len(run[t].results) = 3
        /\ run[t].results[2].status = "ok" /\ run[t].results[3].status = "ok"

\* C3: a run that returns a Run Result has one result per declared step, in
\* index order, each ok or skipped, and the two counts add up to the number
\* of steps; a run that failed returns no Run Result, only the error.
C3_CompletedOrAborted ==
    \A t \in DOMAIN run :
        LET f == run[t]
            r == f.result
        IN  /\ f.pc = "done" =>
                   /\ f.error = NoError
                   /\ r.workflow = f.name /\ r.results = f.results
                   /\ Len(r.results) = Len(f.workflow.steps)
                   /\ \A k \in 1..Len(r.results) :
                          /\ r.results[k].step = k - 1
                          /\ r.results[k].status \in {"ok", "skipped"}
                   /\ r.steps_executed =
                          Cardinality({ k \in 1..Len(r.results) : r.results[k].status = "ok" })
                   /\ r.steps_executed + r.steps_skipped = Len(f.workflow.steps)
            /\ f.pc # "done" => r = NoResult
            /\ f.pc = "failed" <=> f.error # NoError

\* C3 witness: a run of three steps returned with two ok and one skipped
C3_Witness ==
    \E t \in DOMAIN run :
        /\ run[t].pc = "done" /\ Len(run[t].workflow.steps) = 3
        /\ run[t].result.steps_executed = 2 /\ run[t].result.steps_skipped = 1


\* the workflow definitions the store holds, as get_workflow reads them
StoreView == LoadWorkflows(file, example)

\* some declared input is required, has no default and was not supplied
MissingRequired(input_defs, inputs) ==
    \E k \in 1..Len(input_defs) :
        /\ input_defs[k].required
        /\ input_defs[k].default = PyNone
        /\ input_defs[k].name \notin Keys(inputs)

\* the frame of a run that has done nothing: no step gated, no condition
\* evaluated, no delay waited, no action called, nothing recorded or returned
NothingDone(f) ==
    /\ f.trace = <<>>
    /\ f.results = <<>>
    /\ f.context.steps = <<>>
    /\ f.result = NoResult

\* C4: a run whose workflow declares a required input without a default that
\* the caller did not supply has failed with a missing-input error naming
\* such an input, before any step was gated or any action called
C4_MissingInputState ==
    \A t \in DOMAIN run :
        LET f == run[t]
        IN  /\ (f.pc # "idle" /\ f.name \in DOMAIN StoreView
                    /\ MissingRequired(StoreView[f.name].inputs, f.inputs)) =>
                   (/\ f.pc = "failed"
                    /\ f.error.kind = "missing input"
                    /\ \E k \in 1..Len(f.workflow.inputs) :
                           /\ f.workflow.inputs[k].name = f.error.input
                           /\ f.workflow.inputs[k].required
                           /\ f.workflow.inputs[k].default = PyNone
                           /\ f.error.input \notin Keys(f.inputs)
                    /\ NothingDone(f))
            /\ (f.error.kind = "missing input") =>
                   (f.pc = "failed" /\ MissingRequired(f.workflow.inputs, f.inputs))

\* C4, the store: the call of run that fails with the missing-input error
\* leaves the definitions of the store as they were
C4_MissingInputStep ==
    \A t \in DOMAIN run :
        (run'[t] # run[t] /\ run'[t].error.kind = "missing input") =>
            LoadWorkflows(file', example') = StoreView

\* C4: a required input without default that is not supplied fails the run
\* with a missing-input error before any step is gated or any action called,
\* and the store is unchanged
C4_MissingInput == [](C4_MissingInputState) /\ [][C4_MissingInputStep]_vars

\* C4 witness: a workflow of three steps was run without its required input
C4_Witness ==
    \E t \in DOMAIN run :
        /\ run[t].pc = "failed" /\ run[t].error.kind = "missing input"
        /\ run[t].error.input = S_n
        /\ Len(run[t].workflow.steps) = 3

\* C5, the state: a run of a name the store does not hold has failed with a
\* not-found error for that name and has done nothing
C5_NotFoundState ==
    \A t \in DOMAIN run :
        LET f == run[t]
        IN  /\ (f.pc # "idle" /\ f.name \notin DOMAIN StoreView) =>
                   (/\ f.pc = "failed"
                    /\ f.error = [kind |-> "not found", name |-> f.name]
                    /\ NothingDone(f))
            /\ (f.error.kind = "not found") =>
                   (f.pc = "failed" /\ f.name \notin DOMAIN StoreView)

\* C5, the store: the call of run that fails with not-found leaves the
\* definitions of the store as they were
C5_NotFoundStep ==
    \A t \in DOMAIN run :
        (run'[t] # run[t] /\ run'[t].error.kind = "not found") =>
            LoadWorkflows(file', example') = StoreView

\* C5: run of a name that is not in the store fails with a not-found error,
\* calls no action and leaves the store unchanged
C5_NotFound == [](C5_NotFoundState) /\ [][C5_NotFoundStep]_vars

\* C5 witness: the store holds a workflow of three steps and a run of
\* another name failed with not-found
C5_Witness ==
    \E t \in DOMAIN run :
        /\ run[t].pc = "failed" /\ run[t].error.kind = "not found"
        /\ file.exists /\ DOMAIN StoreView # {}
        /\ \E n \in DOMAIN StoreView : Len(StoreView[n].steps.l) = 3


\* {"skipped": True}
SkipMarker == << <<S_skipped, PyBool(TRUE)>> >>

\* the declaration of step i
StepOf(f, i) == f.workflow.steps[i + 1]

\* the gate event at position k of the trace found the step outside its
\* window or its days
GateDenied(f, k) ==
    LET step == StepOf(f, f.trace[k].step)
    IN  ~Admits(step.time_after, step.time_before, step.days, Clock[f.trace[k].at])

\* the value of the `if` condition of step i against the context the step
\* saw (the outcomes of the steps before it) at clock reading a
ConditionHolds(f, i, a) ==
    EvaluateCondition(StepOf(f, i).if,
                      [input |-> f.context.input, steps |-> Take(f.context.steps, i)],
                      Clock[a])

\* step i was skipped for `reason`: its action was not called and its delay
\* not waited, results and context["steps"] have its skipped entry, and the
\* run went on with step i + 1 (event k is the last event of step i)
SkippedAndWentOn(f, i, k, reason) ==
    /\ Events(f, "call", i) = {}
    /\ Events(f, "sleep", i) = {}
    /\ Len(f.results) > i /\ Len(f.context.steps) > i
    /\ f.results[i + 1] = [step |-> i, action |-> Declared(f, i),
                           status |-> "skipped", reason |-> reason]
    /\ f.context.steps[i + 1] = SkipMarker
    /\ f.pc # "failed" \/ f.error.step > i
    /\ IF k < Len(f.trace)
       THEN f.trace[k + 1].ev = "gate" /\ f.trace[k + 1].step = i + 1
       ELSE IF i + 1 < Len(f.workflow.steps)
       THEN f.pc = "gate" /\ f.i = i + 1
       ELSE f.pc = "done"

\* C6: when the gate denies step i, its action is not called and its delay is
\* not waited, the results have a skipped entry for index i with the reason
\* of the denial, a skip marker is appended to the steps of the context and
\* the run goes on with step i + 1
C6_GateDeniedSkips ==
    \A t \in DOMAIN run :
        LET f == run[t]
        IN  \A k \in 1..Len(f.trace) :
                (f.trace[k].ev = "gate" /\ GateDenied(f, k)) =>
                    LET i    == f.trace[k].step
                        step == StepOf(f, i)
                        why  == CheckTimeConditions(step.time_after, step.time_before,
                                                    step.days, Clock[f.trace[k].at])
                    IN  /\ why.why \in {"not scheduled", "too early", "too late"}
                        /\ SkippedAndWentOn(f, i, k, why)

\* C6 witness: the first of three steps was denied as too early, the second
\* was then executed and the run returned
C6_Witness ==
    \E t \in DOMAIN run :
        /\ run[t].pc = "done" /\ Len(run[t].results) = 3
        /\ run[t].results[1].status = "skipped"
        /\ run[t].results[1].reason.why = "too early"
        /\ run[t].results[2].status = "ok"

\* C8: when the gate admits step i and its `if` condition is false, the
\* action is not called, the results have a skipped entry "condition not
\* met", a skip marker is appended to the steps of the context and the run
\* goes on with step i + 1
C8_ConditionFalseSkips ==
    \A t \in DOMAIN run :
        LET f == run[t]
        IN  \A k \in 1..Len(f.trace) :
                LET i == f.trace[k].step
                IN  (/\ f.trace[k].ev = "gate"
                     /\ ~GateDenied(f, k)
                     /\ StepOf(f, i).if # <<>>
                     /\ ~ConditionHolds(f, i, f.trace[k].at)) =>
                        (/\ k < Len(f.trace)
                         /\ f.trace[k + 1].ev = "cond" /\ f.trace[k + 1].step = i
                         /\ SkippedAndWentOn(f, i, k + 1, [why |-> "condition not met"]))

\* C8 witness: the second of three steps was skipped because its condition
\* was not met and the third was executed
C8_Witness ==
    \E t \in DOMAIN run :
        /\ run[t].pc = "done" /\ Len(run[t].results) = 3
        /\ run[t].results[1].status = "ok"
        /\ run[t].results[2].status = "skipped"
        /\ run[t].results[2].reason.why = "condition not met"
        /\ run[t].results[3].status = "ok"

\* C9: the gate is checked before the `if` condition and whatever the
\* condition is: a condition is evaluated only straight after the gate of
\* its step admitted, a denied step has no condition evaluated and the
\* reason of the gate, and an action is called only when the gate admitted
\* and the condition, if there is one, held
C9_GateBeforeCondition ==
    \A t \in DOMAIN run :
        LET f == run[t]
        IN  \A k \in 1..Len(f.trace) :
                LET i == f.trace[k].step
                IN  /\ (f.trace[k].ev = "cond") =>
                           (/\ k > 1
                            /\ f.trace[k - 1] = [ev |-> "gate", step |-> i, at |-> f.trace[k].at]
                            /\ ~GateDenied(f, k - 1)
                            /\ StepOf(f, i).if # <<>>
                            /\ Events(f, "cond", i) = {k})
                    /\ (f.trace[k].ev = "gate" /\ GateDenied(f, k)) =>
                           (/\ Events(f, "cond", i) = {}
                            /\ Len(f.results) > i
                            /\ f.results[i + 1].status = "skipped"
                            /\ f.results[i + 1].reason.why
                                   \in {"not scheduled", "too early", "too late"})
                    /\ (f.trace[k].ev = "gate" /\ ~GateDenied(f, k) /\ Len(f.results) > i
                            /\ f.results[i + 1].status = "skipped") =>
                           (/\ f.results[i + 1].reason = [why |-> "condition not met"]
                            /\ Events(f, "cond", i) # {})
                    /\ (f.trace[k].ev = "call") =>
                           (/\ \E g \in Events(f, "gate", i) : g < k /\ ~GateDenied(f, g)
                            /\ (StepOf(f, i).if # <<>>) =>
                                   (\E c \in Events(f, "cond", i) :
                                        c < k /\ ConditionHolds(f, i, f.trace[c].at)))

\* C9 witness: a step whose condition is false was denied by the gate, and
\* has the reason of the gate
C9_Witness ==
    \E t \in DOMAIN run :
        LET f == run[t]
        IN  \E k \in 1..Len(f.trace) :
                /\ f.trace[k].ev = "gate" /\ GateDenied(f, k)
                /\ StepOf(f, f.trace[k].step).if # <<>>
                /\ ~ConditionHolds(f, f.trace[k].step, f.trace[k].at)
                /\ f.results[f.trace[k].step + 1].reason.why = "not scheduled"

\* C10: the steps of the context have one entry per step processed so far,
\* skipped steps included: while step i is gated, delayed or called the list
\* has i entries, entry j is the output of step j or the skip marker, and
\* when step i has ended ok or skipped the list has i + 1 entries
C10_ContextIndexing ==
    \A t \in DOMAIN run :
        LET f == run[t]
        IN  /\ Len(f.context.steps) = Len(f.results)
            /\ (f.pc \in {"gate", "delay", "invoke"}) => (Len(f.context.steps) = f.i)
            /\ (f.pc = "done") => (Len(f.context.steps) = Len(f.workflow.steps))
            /\ \A k \in 1..Len(f.results) :
                   /\ f.results[k].step = k - 1
                   /\ (f.results[k].status = "skipped") => (f.context.steps[k] = SkipMarker)
                   /\ (f.results[k].status = "ok") =>
                          (/\ f.context.steps[k] = f.results[k].output
                           /\ f.context.steps[k] # SkipMarker
                           /\ Get(f.context.steps[k], S_success, PyNone) = PyBool(TRUE))

\* C10 witness: the third step is about to be gated after a skipped first
\* step and an executed second step
C10_Witness ==
    \E t \in DOMAIN run :
        /\ run[t].pc = "gate" /\ run[t].i = 2
        /\ run[t].results[1].status = "skipped"
        /\ run[t].results[2].status = "ok"
        /\ Len(run[t].context.steps) = 2


\* the fields of a mapping, whatever their order
SameMapping(d, e) ==
    /\ Keys(d) = Keys(e)
    /\ \A key \in Keys(d) : Get(d, key, PyNone) = Get(e, key, PyNone)

\* C11: every outcome record of a step that ended ok has success = true,
\* whatever the action returned, a mapping with a success field of its own
\* included; so a step 1 with the condition steps[0].success == true that the
\* gate admits after step 0 ended ok is never skipped
C11_OkMeansSuccess ==
    \A t \in DOMAIN run :
        LET f == run[t]
        IN  /\ \A k \in 1..Len(f.results) :
                   (f.results[k].status = "ok") =>
                       (/\ Get(f.results[k].output, S_success, PyNone) = PyBool(TRUE)
                        /\ Get(f.context.steps[k], S_success, PyNone) = PyBool(TRUE))
            /\ \A k \in 1..Len(f.trace) :
                   (/\ f.trace[k].ev = "gate" /\ f.trace[k].step = 1
                    /\ ~GateDenied(f, k)
                    /\ StepOf(f, 1).if = IfStep0Ok
                    /\ f.results[1].status = "ok") =>
                       (/\ f.pc \in {"delay", "invoke", "done", "failed"}
                        /\ Events(f, "cond", 1) = {k + 1}
                        /\ (Len(f.results) > 1) => (f.results[2].status = "ok")
                        /\ (f.pc = "done") => (Events(f, "call", 1) # {}))

\* C11 witness: the first action returned a mapping with success = false and
\* the second step was executed all the same
C11_Witness ==
    \E t \in DOMAIN run :
        /\ run[t].pc = "done" /\ Len(run[t].results) = 2
        /\ actions["clipboard-get"].t = "dict"
        /\ Get(actions["clipboard-get"].d, S_success, PyNone) = PyBool(FALSE)
        /\ run[t].results[1].status = "ok" /\ run[t].results[2].status = "ok"
        /\ StepOf(run[t], 1).if = IfStep0Ok

\* what the first action of the run of frame f returned (the step ended ok)
Returned(f) == actions[Declared(f, 0)]

\* str, int, float and bool values
IsScalar(v) == v.t \in {"str", "int", "float", "bool"}

\* C12, as amended: a string becomes {message: value, success: true}, a
\* mapping becomes its fields with success: true added or overwritten, and
\* anything else (a number, a boolean, None, a list) becomes
\* {result: value, success: true}
C12_NormalizedByKind ==
    \A t \in DOMAIN run :
        LET f == run[t]
            v == Returned(f)
        IN  (Len(f.results) > 0 /\ f.results[1].status = "ok") =>
                (/\ (v.t = "str") =>
                        SameMapping(f.results[1].output,
                                    << <<S_message, v>>, <<S_success, PyBool(TRUE)>> >>)
                 /\ (v.t = "dict") =>
                        (/\ Keys(f.results[1].output) = Keys(v.d) \cup {S_success}
                         /\ Get(f.results[1].output, S_success, PyNone) = PyBool(TRUE)
                         /\ \A key \in Keys(v.d) \ {S_success} :
                                Get(f.results[1].output, key, PyNone) = Get(v.d, key, PyNone))
                 /\ (v.t \notin {"str", "dict"}) =>
                        SameMapping(f.results[1].output,
                                    << <<S_result, v>>, <<S_success, PyBool(TRUE)>> >>))

\* C12 witness: the action returned the integer 5 and the step ended ok
C12_Witness ==
    \E t \in DOMAIN run :
        /\ Len(run[t].results) > 0 /\ run[t].results[1].status = "ok"
        /\ Returned(run[t]) = PyInt(5)
        /\ Get(run[t].results[1].output, S_result, PyNone) = PyInt(5)

\* C12 as stated: every plain scalar becomes {message: value, success: true}
C12_ScalarBecomesMessage ==
    \A t \in DOMAIN run :
        LET f == run[t]
            v == Returned(f)
        IN  (Len(f.results) > 0 /\ f.results[1].status = "ok" /\ IsScalar(v)) =>
                SameMapping(f.results[1].output,
                            << <<S_message, v>>, <<S_success, PyBool(TRUE)>> >>)


\* the run of frame f got past the resolution of its inputs
InputsResolved(f) ==
    f.pc # "idle" /\ f.error.kind \notin {"not found", "missing input"}

\* the text "c: " that PlainStep puts before {{ input.city }}
CityPrefix == <<"c", ":", " ">>

\* C13: once the inputs of a run are resolved, each declared input has the
\* run-time value if one was supplied, else its default if it has one, and
\* is absent otherwise (it is then not required); every run-time input,
\* declared or not, is in the resolved mapping with its value, nothing else
\* is; a run fails on a required input with neither; and the message
\* "c: {{ input.city }}" is called with the resolved city
C13_InputResolution ==
    \A t \in DOMAIN run :
        LET f        == run[t]
            defs     == f.workflow.inputs
            declared == { defs[k].name : k \in 1..Len(defs) }
            resolved == f.context.input
        IN  /\ InputsResolved(f) =>
                   (/\ \A k \in 1..Len(defs) :
                           LET name == defs[k].name
                           IN  IF name \in Keys(f.inputs)
                               THEN Get(resolved, name, PyNone) = Get(f.inputs, name, PyNone)
                               ELSE IF defs[k].default # PyNone
                               THEN name \in Keys(resolved)
                                        /\ Get(resolved, name, PyNone) = defs[k].default
                               ELSE name \notin Keys(resolved) /\ ~defs[k].required
                    /\ \A key \in Keys(f.inputs) :
                           key \in Keys(resolved)
                               /\ Get(resolved, key, PyNone) = Get(f.inputs, key, PyNone)
                    /\ Keys(resolved) \subseteq (declared \cup Keys(f.inputs)))
            /\ (f.error.kind = "missing input") =>
                   (\E k \in 1..Len(defs) :
                        /\ defs[k].name = f.error.input /\ defs[k].required
                        /\ defs[k].default = PyNone /\ defs[k].name \notin Keys(f.inputs))
            /\ \A k \in 1..Len(f.trace) :
                   (f.trace[k].ev = "call" /\ StepOf(f, f.trace[k].step) = PlainStep) =>
                       (Get(f.trace[k].params, S_message, PyNone) =
                            PyStr(CityPrefix \o (IF S_city \in Keys(resolved)
                                                 THEN Get(resolved, S_city, PyNone).s
                                                 ELSE <<>>)))

\* C13 witness: a run was given n but not city, and its action was called
\* with the default city; n, given, is in the resolved mapping
C13_Witness ==
    \E t \in DOMAIN run :
        LET f == run[t]
        IN  /\ Len(f.workflow.inputs) = 2
            /\ Keys(f.inputs) = {S_n}
            /\ Get(f.context.input, S_n, PyNone) = PyInt(5)
            /\ \E k \in 1..Len(f.trace) :
                   /\ f.trace[k].ev = "call"
                   /\ Get(f.trace[k].params, S_message, PyNone) =
                          PyStr(CityPrefix \o <<"N", "Y", "C">>)


\* what the store holds after the call at position k of log: what the next
\* call found, or what a load gives now
StoreAfter(k) == IF k < Len(log) THEN log[k + 1].before ELSE StoreView

\* the call at position k + 1 of log is get_workflow of the name of call k
ThenGet(k) ==
    k < Len(log) /\ log[k + 1].op = "get" /\ log[k + 1].name = log[k].name

\* what get_workflow answers for a name that holds definition D: the fields
\* of D, and the name
Answers(result, name, D) ==
    /\ result.found
    /\ DOMAIN result.workflow = DOMAIN D \cup {"name"}
    /\ \A field \in DOMAIN D : result.workflow[field] = D[field]
    /\ ("name" \notin DOMAIN D) => (result.workflow.name = name)

\* C14, as amended: create_or_update(name, D) of a valid D followed by
\* get(name) returns every field of D unchanged, together with a name field
\* (the name of the workflow, unless D has a name field of its own)
C14_CreateThenGet ==
    \A k \in 1..Len(log) :
        (log[k].op = "create" /\ log[k].result.ok /\ ThenGet(k)) =>
            Answers(log[k + 1].result, log[k].name, log[k].config)

\* C14 witness: a definition with a description was created under "night"
\* and then read back
C14_Witness ==
    \E k \in 1..Len(log) :
        /\ log[k].op = "create" /\ log[k].result.ok /\ ThenGet(k)
        /\ log[k].name = "night" /\ log[k].config = DescribedBody
        /\ log[k + 1].result.found

\* C14 as stated: get(name) after create_or_update(name, D) returns a
\* definition equal to D
C14_GetEqualsCreated ==
    \A k \in 1..Len(log) :
        (log[k].op = "create" /\ log[k].result.ok /\ ThenGet(k)) =>
            (log[k + 1].result.found /\ log[k + 1].result.workflow = log[k].config)

\* a definition create_or_update must refuse: no steps, steps that are not a
\* list, a step without an action, a step whose action is not registered
Invalid(config, registry) ==
    \/ "steps" \notin DOMAIN config
    \/ config.steps.t # "list"
    \/ \E i \in 1..Len(config.steps.l) :
           \/ "action" \notin DOMAIN config.steps.l[i]
           \/ config.steps.l[i].action \notin registry

\* C15: create_or_update of an invalid definition fails with a validation
\* error and persists nothing: the store is as before, and a get(name) that
\* follows returns the prior definition, or not-found if there was none
C15_InvalidNotPersisted ==
    \A k \in 1..Len(log) :
        (log[k].op = "create" /\ Invalid(log[k].config, log[k].registry)) =>
            (/\ ~log[k].result.ok
             /\ log[k].result.error.kind = "validation"
             /\ log[k].after = log[k].before
             /\ StoreAfter(k) = log[k].before
             /\ ThenGet(k) =>
                    (IF log[k].name \in DOMAIN log[k].before
                     THEN Answers(log[k + 1].result, log[k].name, log[k].before[log[k].name])
                     ELSE ~log[k + 1].result.found))

\* C15 witness: a definition naming an unregistered action was refused for a
\* name that had a definition, and get then returned that definition
C15_Witness ==
    \E k \in 1..Len(log) :
        /\ log[k].op = "create" /\ log[k].config = UnknownActionBody
        /\ log[k].name \in DOMAIN log[k].before
        /\ ~log[k].result.ok /\ log[k].result.error.why = "unknown action"
        /\ ThenGet(k) /\ log[k + 1].result.found

\* C16: delete of a name that is not in the store returns not-found and
\* leaves the store as it was, each time it is repeated
C16_DeleteMissing ==
    \A k \in 1..Len(log) :
        (log[k].op = "delete" /\ log[k].name \notin DOMAIN log[k].before) =>
            (/\ log[k].result = [deleted |-> FALSE]
             /\ log[k].after = log[k].before
             /\ StoreAfter(k) = log[k].before
             /\ (k < Len(log) /\ log[k + 1].op = "delete" /\ log[k + 1].name = log[k].name) =>
                    (log[k + 1].result = log[k].result /\ log[k + 1].after = log[k].before))

\* C16 witness: a name that is not in a store of one workflow was deleted
\* twice
C16_Witness ==
    \E k \in 1..Len(log) :
        /\ log[k].op = "delete" /\ log[k].name \notin DOMAIN log[k].before
        /\ DOMAIN log[k].before # {}
        /\ k < Len(log) /\ log[k + 1].op = "delete" /\ log[k + 1].name = log[k].name
        /\ ~log[k + 1].result.deleted

\* C17: create_or_update(name, D) on a name that exists makes D the whole
\* definition of that name (no field of the old one is left) and leaves
\* every other workflow of the store as it was
C17_CreateReplaces ==
    \A k \in 1..Len(log) :
        (log[k].op = "create" /\ log[k].result.ok /\ log[k].name \in DOMAIN log[k].before) =>
            (/\ DOMAIN StoreAfter(k) = DOMAIN log[k].before
             /\ StoreAfter(k)[log[k].name] = log[k].config
             /\ DOMAIN StoreAfter(k)[log[k].name] = DOMAIN log[k].config
             /\ \A n \in DOMAIN log[k].before \ {log[k].name} :
                    StoreAfter(k)[n] = log[k].before[n]
             /\ log[k].after = StoreAfter(k))

\* C17 witness: in a store of two workflows a definition with a description
\* and inputs was replaced with one that has neither
C17_Witness ==
    \E k \in 1..Len(log) :
        /\ log[k].op = "create" /\ log[k].result.ok
        /\ DOMAIN log[k].before = {"morning", "night"}
        /\ "description" \in DOMAIN log[k].before[log[k].name]
        /\ log[k].config = NamedBody
        /\ "description" \notin DOMAIN StoreAfter(k)[log[k].name]


\* the city a run of TwoDocument resolves from its own inputs
OwnCity(f) ==
    IF S_city \in Keys(f.inputs) THEN Get(f.inputs, S_city, PyNone)
    ELSE PyStr(<<"N", "Y", "C">>)

\* the text of the outcome of the first step of the workflow the run is of:
\* the clipboard of "morning", the message of "night"
OwnFirstText(f) ==
    IF f.name = "morning" THEN <<"n", "o", "t", "e", "s">> ELSE <<"s", "e", "n", "t">>

\* C18: two runs at the same time keep to their own execution contexts: the
\* resolved inputs of each are those of its own call, its step outcomes are
\* those of its own steps, the message of its second step is substituted
\* from its own first outcome and city, and the condition of its third step
\* is decided by its own first outcome
C18_RunsDoNotInterfere ==
    \A t \in DOMAIN run :
        LET f == run[t]
        IN  (f.pc # "idle") =>
                (/\ Keys(f.context.input) = Keys(f.inputs) \cup {S_city}
                 /\ Get(f.context.input, S_city, PyNone) = OwnCity(f)
                 /\ \A key \in Keys(f.inputs) :
                        Get(f.context.input, key, PyNone) = Get(f.inputs, key, PyNone)
                 /\ Len(f.context.steps) = Len(f.results)
                 /\ Len(f.context.steps) <= f.i + 1
                 /\ \A k \in 1..Len(f.context.steps) :
                        IF f.results[k].status = "skipped"
                        THEN f.context.steps[k] = SkipMarker
                        ELSE SameMapping(f.context.steps[k],
                                         Put(IF MainActions[Declared(f, k - 1)].t = "dict"
                                             THEN MainActions[Declared(f, k - 1)].d
                                             ELSE << <<S_message, MainActions[Declared(f, k - 1)]>> >>,
                                             S_success, PyBool(TRUE)))
                 /\ \A k \in Events(f, "call", 1) :
                        Get(f.trace[k].params, S_message, PyNone) =
                            PyStr(OwnFirstText(f) \o <<"/">> \o OwnCity(f).s)
                 /\ (Len(f.results) > 2) =>
                        (f.results[3].status = (IF f.name = "morning" THEN "ok" ELSE "skipped"))
                 /\ (f.name = "night") => (Events(f, "call", 2) = {}))

\* C18 witness: while one thread is in the middle of "night" with its own
\* city, the other has called the second step of "morning" with the default
\* city and goes on to its third step
C18_Witness ==
    /\ run["t1"].name = "morning" /\ run["t2"].name = "night"
    /\ run["t1"].pc = "gate" /\ run["t1"].i = 2 /\ Events(run["t1"], "call", 1) # {}
    /\ run["t2"].pc = "invoke" /\ run["t2"].i = 1
    /\ OwnCity(run["t1"]) # OwnCity(run["t2"])


\* create_or_update accepted the definition the run is of, under the
\* registry of this moment
AcceptedUnchanged(f) ==
    \E k \in 1..Len(log) :
        /\ log[k].op = "create"
        /\ log[k].result.ok
        /\ log[k].name = f.name
        /\ Loaded(log[k].config) = f.workflow
        /\ log[k].registry = DOMAIN actions

\* thread t goes through the lookup and the call of the step it was admitted to
LooksUp(t) ==
    /\ run[t].pc = "invoke"
    /\ run'[t].pc \in {"gate", "done", "failed"}

\* C19: a run of a workflow that create_or_update accepted under the
\* registry as it is now does not fail with an unknown-action error; the
\* lookup is made again at each admitted step, so a run fails with that
\* error exactly at an admitted step whose action is not registered (any
\* more), before the action is called, and a step that was skipped is not
\* looked up
C19_UnknownActionStep ==
    \A t \in DOMAIN run :
        LET f == run[t]
            g == run'[t]
        IN  LooksUp(t) =>
                (/\ AcceptedUnchanged(f) => (g.error.kind # "unknown action")
                 /\ (Declared(f, f.i) \notin DOMAIN actions) <=>
                        (g.pc = "failed" /\ g.error.kind = "unknown action")
                 /\ (g.error.kind = "unknown action") =>
                        (/\ g.error.step = f.i
                         /\ g.error.action = Declared(f, f.i)
                         /\ g.results = f.results
                         /\ g.trace = f.trace
                         /\ Events(f, "gate", f.i) # {}
                         /\ \A k \in 1..Len(f.results) :
                                f.results[k].status \in {"ok", "skipped"}))

C19_UnknownAction == [][C19_UnknownActionStep]_vars

\* C19 witness: a definition was accepted when its three actions were
\* registered; with "notify" alone registered again, its run notifies, skips
\* the open-app step without a lookup and fails at the clipboard step
C19_Witness ==
    \E t \in DOMAIN run :
        /\ run[t].pc = "failed"
        /\ run[t].error = [kind |-> "unknown action", step |-> 2, action |-> "clipboard-get"]
        /\ Len(run[t].results) = 2
        /\ run[t].results[1].status = "ok"
        /\ run[t].results[2].status = "skipped"
        /\ Declared(run[t], 1) \notin DOMAIN actions
        /\ \E k \in 1..Len(log) :
               /\ log[k].result.ok
               /\ Loaded(log[k].config) = run[t].workflow
               /\ "clipboard-get" \in log[k].registry


\* the calls among the first k of log that changed what the store holds
\* under a name: an accepted create_or_update, a delete that found it
Writes(name, k) ==
    { j \in 1..k :
          /\ log[j].name = name
          /\ \/ log[j].op = "create" /\ log[j].result.ok
             \/ log[j].op = "delete" /\ log[j].result.deleted }

\* what the completed changes among the first k calls leave under a name:
\* the definition of the last create_or_update, nothing after a delete, and
\* what the file held at the start if there was no change
Left(name, k) ==
    LET writes == Writes(name, k)
        last   == CHOOSE j \in writes : \A w \in writes : w <= j
    IN  IF writes = {}
        THEN IF name \in DOMAIN ReadStart
             THEN [there |-> TRUE, config |-> ReadStart[name]]
             ELSE [there |-> FALSE]
        ELSE IF log[last].op = "create"
        THEN [there |-> TRUE, config |-> log[last].config]
        ELSE [there |-> FALSE]

\* every get and every list in log answers with what the changes completed
\* before it left
C20_ReadsAreFresh ==
    \A k \in 1..Len(log) :
        /\ (log[k].op = "get") =>
               (LET left == Left(log[k].name, k - 1)
                IN  IF left.there THEN Answers(log[k].result, log[k].name, left.config)
                    ELSE ~log[k].result.found)
        /\ (log[k].op = "list") =>
               (/\ DOMAIN log[k].result = { n \in Names : Left(n, k - 1).there }
                /\ \A n \in DOMAIN log[k].result :
                       log[k].result[n].steps_count = Len(Left(n, k - 1).config.steps.l))

\* a call of run() starts with what the changes completed before it left
C20_RunIsFresh ==
    \A t \in DOMAIN run :
        (run[t].pc \in {"idle", "done", "failed"} /\ run'[t] # run[t]) =>
            (LET left == Left(run'[t].name, Len(log))
             IN  IF left.there
                 THEN /\ run'[t].error.kind # "not found"
                      /\ run'[t].workflow = Loaded(left.config)
                 ELSE /\ run'[t].pc = "failed"
                      /\ run'[t].error.kind = "not found")

\* C20: the store is read again by every list, get and run: each of them
\* that starts after a create_or_update or a delete has completed observes
\* that change (and the latest one, when there are several)
C20_NoCaching == [](C20_ReadsAreFresh) /\ [][C20_RunIsFresh]_vars

\* C20 witness: "morning" was fetched, then replaced, and a run that started
\* after that is under way with the new definition, not the one fetched
C20_Witness ==
    /\ Len(log) > 1
    /\ log[1].op = "get" /\ log[1].name = "morning" /\ log[1].result.found
    /\ log[2].op = "create" /\ log[2].name = "morning" /\ log[2].result.ok
    /\ Writes("morning", Len(log)) = {2}
    /\ \E t \in DOMAIN run :
           /\ run[t].name = "morning"
           /\ run[t].pc = "invoke"
           /\ run[t].workflow = Loaded(log[2].config)
           /\ run[t].workflow # Loaded(log[1].result.workflow)


\* the workflows a writer leaves in its own copy of the document
OwnCopy(w) ==
    IF w.op = "create"
    THEN [n \in DOMAIN w.data.workflows \cup {w.name} |->
              IF n = w.name THEN w.config ELSE w.data.workflows[n]]
    ELSE [n \in DOMAIN w.data.workflows \ {w.name} |-> w.data.workflows[n]]

\* thread t comes out of create_workflow or delete_workflow
Completes(t) == writers[t].pc = "loaded" /\ writers'[t].pc = "done"

\* C21: nothing is locked between the load and the save of a writer; a save
\* that does write leaves the store exactly as the copy the writer loaded,
\* with its own change: whatever another writer saved in between is gone.  A
\* call that is refused (invalid definition, name not there) writes nothing.
C21_SaveStep ==
    \A t \in DOMAIN writers :
        Completes(t) =>
            (LET w == writers[t]
                 last == log'[Len(log')]
                 wrote == IF w.op = "create" THEN last.result.ok ELSE last.result.deleted
             IN  /\ Len(log') = Len(log) + 1
                 /\ last.op = w.op /\ last.name = w.name
                 /\ IF wrote THEN file'.exists /\ file'.workflows = OwnCopy(w)
                    ELSE file' = file)

C21_LastWriteWins == [][C21_SaveStep]_vars

\* C21 witness: two creates of different names overlapped, both were
\* accepted, and the store does not hold the name of the one saved first
C21_Witness ==
    /\ Len(log) = 2
    /\ log[1].op = "create" /\ log[1].result.ok
    /\ log[2].op = "create" /\ log[2].result.ok
    /\ log[1].name # log[2].name
    /\ \A t \in DOMAIN writers : writers[t].pc = "done"
    /\ log[1].name \notin DOMAIN StoreView
    /\ log[2].name \in DOMAIN StoreView


\* the parts of the message of the second step of the stored workflow
PartsOf(f) ==
    CHOOSE parts \in Templates :
        Get(f.workflow.steps[2].params, S_message, PyNone) = PyStr(TemplateText(parts))

\* what a message made of these parts is to become in run f: literal text
\* stays, a token that evaluates gives way to its value, and a token whose
\* evaluation raises stays as it was written
RECURSIVE Substituted(_, _)
Substituted(parts, f) ==
    IF parts = <<>> THEN <<>>
    ELSE (IF Head(parts).kind = "city" THEN OwnCity(f).s
          ELSE IF Head(parts).kind = "first" THEN <<"s", "e", "n", "t">>
          ELSE Head(parts).text)
         \o Substituted(Tail(parts), f)

\* C22: a token whose evaluation raises is left as written in the message
\* the action is called with, the other tokens of the message are
\* substituted, and the run does not fail on it: it fails only when the
\* action itself raises
C22_SoftFail ==
    \A t \in DOMAIN run :
        LET f == run[t]
        IN  /\ \A k \in Events(f, "call", 1) :
                   Get(f.trace[k].params, S_message, PyNone) =
                       PyStr(Substituted(PartsOf(f), f))
            /\ (f.pc = "failed") =>
                   (/\ f.error.kind = "step failed"
                    /\ f.trace[Len(f.trace)].ev = "call"
                    /\ f.trace[Len(f.trace)].raised)
            /\ (f.pc = "done") => (Len(f.results) = 2 /\ f.results[2].status = "ok")

\* C22 witness: a run is done whose message had a token that raises between
\* two tokens that were substituted
C22_Witness ==
    \E t \in DOMAIN run :
        /\ run[t].pc = "done"
        /\ PartsOf(run[t]) = <<CityPart, FieldRaisesPart, FirstPart>>
        /\ \E k \in Events(run[t], "call", 1) :
               Get(run[t].trace[k].params, S_message, PyNone) =
                   PyStr(<<"L", "A">> \o FieldRaisesPart.text \o <<"s", "e", "n", "t">>)


\* the six operators in the order of the claim
OperatorOrder == << <<"!", "=">>, <<"=", "=">>, <<">", "=">>, <<"<", "=">>, <<">">>, <<"<">> >>

\* text `sub` stands in text `s` at position k
StandsAt(s, sub, k) == k + Len(sub) - 1 <= Len(s) /\ SubSeq(s, k, k + Len(sub) - 1) = sub

Holds(s, sub) == \E k \in 1..Len(s) : StandsAt(s, sub, k)

\* C23: a condition that holds some operator is split on the first operator
\* of the order !=, ==, >=, <=, >, < that stands anywhere in it, at the first
\* place where that operator stands; so a condition that holds >= or <= is
\* never split on > or <.  A condition that holds none is not split.
C23_SplitOrder ==
    LET c == cond.condition
        split == cond.split
    IN  cond.evaluated =>
            (/\ split.found <=> (\E k \in 1..6 : Holds(c, OperatorOrder[k]))
             /\ split.found =>
                    (\E k \in 1..6 :
                         /\ split.op = OperatorOrder[k]
                         /\ \A j \in 1..(k - 1) : ~Holds(c, OperatorOrder[j])
                         /\ c = split.left \o split.op \o split.right
                         /\ \A at \in 1..Len(split.left) : ~StandsAt(c, split.op, at))
             /\ (Holds(c, <<">", "=">>) \/ Holds(c, <<"<", "=">>)) =>
                    (split.op \notin {<<">">>, <<"<">>}))

\* C23 witness: "input.n>=5" was split on >= and came out true for n = 5
C23_Witness ==
    /\ cond.evaluated
    /\ cond.condition = <<"i", "n", "p", "u", "t", ".", "n", ">", "=", "5">>
    /\ cond.split.op = <<">", "=">>
    /\ cond.split.left = <<"i", "n", "p", "u", "t", ".", "n">>
    /\ cond.split.right = <<"5">>
    /\ cond.value


\* the operator and the resolved operands of the condition of step 0 of f
FirstSplit(f) == SplitCondition(StepOf(f, 0).if)

LeftValue(f) ==
    EvaluateExpression(Strip(FirstSplit(f).left), [input |-> f.context.input, steps |-> <<>>],
                       Clock[now])

RightValue(f) ==
    ParseRight(Strip(FirstSplit(f).right), [input |-> f.context.input, steps |-> <<>>],
               Clock[now])

\* the cast of a resolved operand to a number fails: float() raises
CastFails(v) == ~ToFloat(v).ok \/ CastOverflows(v)

\* the order of two numbers under an ordering operator
Ordered(op, l, r) ==
    IF op = <<">">> THEN l.num * r.den > r.num * l.den
    ELSE IF op = <<"<">> THEN l.num * r.den < r.num * l.den
    ELSE IF op = <<">", "=">> THEN l.num * r.den >= r.num * l.den
    ELSE l.num * r.den <= r.num * l.den

\* step 0 of f was skipped as "condition not met" and the run went on
ConditionNotMet(f) ==
    /\ Len(f.results) > 0
    /\ f.results[1].status = "skipped"
    /\ f.results[1].reason = [why |-> "condition not met"]
    /\ f.pc # "failed"

\* step 0 of f was admitted: it is to be invoked, or it was
FirstAdmitted(f) ==
    \/ f.pc = "invoke" /\ f.i = 0
    \/ Len(f.results) > 0 /\ f.results[1].status = "ok"

\* C24: once the condition of step 0 has been evaluated: under <, >, <=, >=
\* both resolved operands are cast to numbers, and when a cast fails the
\* condition is false, the step is skipped as "condition not met" and the run
\* does not fail; when both casts succeed the step is admitted exactly if the
\* numbers are in that order; under == and != the step is admitted exactly if
\* the resolved values are (not) equal as they are
C24_OrderingCasts ==
    \A t \in DOMAIN run :
        LET f     == run[t]
            op    == FirstSplit(f).op
            left  == LeftValue(f)
            right == RightValue(f)
        IN  (Events(f, "cond", 0) # {}) =>
                IF op = <<"=", "=">> THEN FirstAdmitted(f) <=> PyEq(left, right)
                ELSE IF op = <<"!", "=">> THEN FirstAdmitted(f) <=> ~PyEq(left, right)
                ELSE IF CastFails(left) \/ CastFails(right) THEN ConditionNotMet(f)
                ELSE /\ FirstAdmitted(f) <=> Ordered(op, ToFloat(left), ToFloat(right))
                     /\ ~FirstAdmitted(f) => ConditionNotMet(f)

\* the step in which the timer of the current phase, its sleep over, ends
\* the phase
Expiry(id) ==
    /\ id \in 1..Len(tasks)
    /\ tasks[id].status = "expired"
    /\ Done(tasks'[id])

\* the task that create_task has just made the manager's timer
NewTimer ==
    /\ Len(tasks') = Len(tasks) + 1
    /\ timer_task' = Len(tasks')
    /\ tasks'[timer_task'].status = "created"

ExpiryAlternates ==
    \A id \in 1..Len(tasks) :
        (state.active /\ Expiry(id)) =>
            IF state.session_type = "work"
            THEN /\ state'.sessions_completed = state.sessions_completed + 1
                 /\ tasks'[id].callback = "session"
                 /\ state'.session_type = "break"
                 /\ state'.duration_minutes = state.break_duration
                 /\ state'.active
                 /\ NewTimer
            ELSE /\ state'.sessions_completed = state.sessions_completed
                 /\ tasks'[id].callback = "break"
                 /\ state'.session_type = "work"
                 /\ state'.duration_minutes = state.work_duration
                 /\ state'.active
                 /\ NewTimer

\* the manager's timer sleeps for the duration of the current phase
SleepsForPhase ==
    (state.active /\ timer_task # None /\ tasks[timer_task].status \in {"sleeping", "expired"})
        => tasks[timer_task].duration_seconds = state.duration_minutes * 60

\* no bound of the model stands in the way of the next expiry
Room == Len(tasks) + Reserved + (MaxCalls - Len(calls)) < MaxTasks

InPhase(phase) == state.active /\ state.session_type = phase

\* C25: while the pomodoro is active, phases alternate for ever. The expiry
\* of the timer in a work phase adds one to sessions_completed, calls the
\* session-complete callback and starts a break phase of break_duration
\* with a new timer; the expiry in a break phase calls the break-complete
\* callback and starts a work phase of work_duration with a new timer; the
\* timer sleeps for the duration of its phase; and an active phase always
\* comes to its end, by expiry if by nothing else.
C25_PhasesAlternate ==
    /\ [][ExpiryAlternates]_vars
    /\ [](SleepsForPhase)
    /\ ((InPhase("work") /\ Room) ~> (~state.active \/ state.session_type = "break"))
    /\ ((InPhase("break") /\ Room) ~> (~state.active \/ state.session_type = "work"))

\* a work phase and then a break phase have ended by expiry, and the next
\* work phase is on
C25_Witness ==
    /\ InPhase("work")
    /\ state.sessions_completed = 1
    /\ \E i, j \in 1..Len(tasks) :
           /\ i < j
           /\ tasks[i].status = "finished" /\ tasks[i].callback = "session"
           /\ tasks[j].status = "finished" /\ tasks[j].callback = "break"
    /\ Len(calls) = 1

\* call k, of the given operation, runs from its first line in this step
Begins(op, k) ==
    /\ k \in 1..Len(calls)
    /\ calls[k].op = op
    /\ calls[k].pc = "queued"
    /\ calls'[k].pc # "queued"

\* call k, of the given operation, returns in this step
Ends(op, k) ==
    /\ k \in 1..Len(calls)
    /\ calls[k].op = op
    /\ calls[k].pc # "returned"
    /\ calls'[k].pc = "returned"

IsError(k) == calls'[k].result.t = "error"

NothingChanged == UNCHANGED <<state, timer_task, tasks>>

\* the timer of the phase that is on: the task created last
PhaseTimerDone == tasks # <<>> /\ Done(tasks[Len(tasks)])

\* a task that was asked to cancel does not go on after its sleep
CancelledStaysSilent ==
    \A id \in 1..Len(tasks) :
        tasks[id].status \in {"cancelling", "cancelled"}
            => /\ tasks'[id].status \in {"cancelling", "cancelled"}
               /\ tasks'[id].callback = "none"

SkipMoves ==
    \A k \in 1..Len(calls) :
        /\ (Begins("skip", k) /\ ~state.active) => (Ends("skip", k) /\ IsError(k) /\ NothingChanged)
        /\ (Ends("skip", k) /\ IsError(k)) => (~state.active /\ NothingChanged)
        /\ (Ends("skip", k) /\ ~IsError(k)) =>
               /\ state'.active
               /\ PhaseTimerDone
               /\ NewTimer
               /\ IF state.session_type = "work"
                  THEN /\ state'.session_type = "break"
                       /\ state'.sessions_completed = state.sessions_completed + 1
                  ELSE /\ state'.session_type = "work"
                       /\ state'.sessions_completed = state.sessions_completed

\* C26: a skip that returns without error leaves the pomodoro active in the
\* next phase with a new timer (from work: break, sessions_completed + 1;
\* from break: work, sessions_completed unchanged), the timer of the phase
\* it skipped is done and a cancelled timer never goes on to end a phase; a
\* skip on an inactive pomodoro returns an error and changes nothing.
C26_SkipMovesOn == [][SkipMoves /\ CancelledStaysSilent]_vars

StartWorks(k) ==
    /\ state'.active
    /\ state'.session_type = "work"
    /\ state'.sessions_completed = 0
    /\ state'.start_time = now
    /\ state'.duration_minutes = calls[k].args.work_duration
    /\ state'.work_duration = calls[k].args.work_duration
    /\ state'.break_duration = calls[k].args.break_duration
    /\ state'.focus_mode_enabled = calls[k].args.focus_mode
    /\ state'.original_volume = calls[k].args.original_volume
    /\ NewTimer
    /\ calls'[k].result = Status(state', now)

StartStep ==
    \A k \in 1..Len(calls) :
        /\ (Begins("start", k) /\ state.active) =>
               /\ Ends("start", k)
               /\ calls'[k].result = Error("Pomodoro already active")
               /\ NothingChanged
        /\ (Begins("start", k) /\ ~state.active) => ~IsError(k)
        /\ (Ends("start", k) /\ ~IsError(k)) => StartWorks(k)

\* C27: a start that runs while the pomodoro is active returns the
\* "already active" error and leaves the state (phase, start time, durations,
\* sessions_completed, focus mode, original volume), the manager's timer and
\* every timer task as they were; a start on an inactive pomodoro does not
\* return the error, and when it returns the pomodoro is active in a work
\* phase with sessions_completed = 0, the durations and focus settings of
\* the call, and a new timer.
C27_StartOnlyWhenInactive == [][StartStep]_vars

\* a start was refused some time into a running phase, and the phase is as
\* it was
C27_Witness ==
    /\ state.active
    /\ state.start_time # None
    /\ state.start_time < now
    /\ state.focus_mode_enabled
    /\ timer_task # None
    /\ tasks[timer_task].status = "sleeping"
    /\ \E j, k \in 1..Len(calls) :
           /\ j < k
           /\ calls[j].op = "start" /\ calls[j].result.t = "status"
           /\ calls[k].op = "start" /\ calls[k].result.t = "error"

StopStep ==
    \A k \in 1..Len(calls) :
        /\ (Begins("stop", k) /\ ~state.active) =>
               /\ Ends("stop", k)
               /\ calls'[k].result = Error("No active pomodoro")
               /\ NothingChanged
        /\ (Ends("stop", k) /\ IsError(k)) => (~state.active /\ NothingChanged)
        /\ (Ends("stop", k) /\ ~IsError(k)) =>
               /\ calls'[k].result = Stopped(state.sessions_completed, state.original_volume)
               /\ state' = PomodoroState
               /\ timer_task' = None
               /\ PhaseTimerDone

\* a start returns in this step, having set the pomodoro up
Restarts ==
    \E k \in 1..Len(calls) :
        /\ calls[k].op \in {"start", "pomodoro-start"}
        /\ calls[k].pc # "returned"
        /\ calls'[k].pc = "returned"
        /\ state'.active

\* nothing moves on a stopped pomodoro
QuietWhileStopped ==
    (~state.active /\ ~Restarts) =>
        /\ state' = state
        /\ \A id \in 1..Len(tasks) : tasks'[id].callback = tasks[id].callback

\* C28: a stop that returns without error returns the sessions_completed
\* and original volume of the state it resets, leaves the state at the
\* inactive defaults with no timer, and the timer of the stopped phase is
\* done; while the pomodoro is inactive, no step other than the return of a
\* start changes the state (phase, counter) or runs a completion callback;
\* a stop on an inactive pomodoro returns an error and changes nothing.
C28_StopStops == [][StopStep /\ QuietWhileStopped]_vars

\* the manager's timer is cancelled: there is none, or it is done
TimerCancelled == timer_task' = None \/ Done(tasks'[timer_task'])

WorkflowStopStep ==
    \A k \in 1..Len(calls) :
        (Ends("pomodoro-stop", k) /\ calls'[k].result.t = "stopped" /\ calls'[k].result.stopped)
            => (~state'.active /\ TimerCancelled)

\* C29: whenever the pomodoro-stop action, invoked by a step of a run that
\* the HTTP run endpoint started, returns {stopped: true}, the pomodoro is
\* inactive and its timer is cancelled.
C29_WorkflowStopStops == [][WorkflowStopStep]_vars

\* the notification of the callback failed in the expiry of task id
NotificationFailed(id) == Expiry(id) /\ ~tasks'[id].notified

ExpirySurvivesFailure ==
    \A id \in 1..Len(tasks) :
        NotificationFailed(id) =>
            /\ tasks'[id].status = "finished"
            /\ NewTimer
            /\ state'.start_time = now
            /\ IF state.session_type = "work"
               THEN /\ tasks'[id].callback = "session"
                    /\ state' = StartBreak([state EXCEPT !.sessions_completed = @ + 1], now)
               ELSE /\ tasks'[id].callback = "break"
                    /\ state' = StartWork(state, now)

\* C30: when the notification fails inside the session-complete or the
\* break-complete callback, the timer task still finishes its step as if it
\* had succeeded: the work phase that ended is counted, the next phase is
\* set up and its timer task is created.
C30_NotificationFailureIsContained == [][ExpirySurvivesFailure]_vars

\* a work phase ended with a failed notification: it is counted, the break
\* is on and its timer sleeps
C30_Witness ==
    /\ InPhase("break")
    /\ state.sessions_completed = 1
    /\ timer_task # None
    /\ tasks[timer_task].status = "sleeping"
    /\ \E id \in 1..Len(tasks) :
           /\ tasks[id].status = "finished"
           /\ tasks[id].callback = "session"
           /\ ~tasks[id].notified

\* the text is the word, letter by letter, in either case
IsLiteral(text, word) ==
    /\ Len(text) = Len(word)
    /\ \A k \in 1..Len(word) :
           \E j \in 1..Len(LowerCase) :
               LowerCase[j] = word[k] /\ text[k] \in {LowerCase[j], UpperCase[j]}

HasOperator(text) ==
    \/ Contains(text, <<"<">>)
    \/ Contains(text, <<">">>)
    \/ Contains(text, <<"=", "=">>)
    \/ Contains(text, <<"!", "=">>)

\* bool(value) of Python, kind by kind
NaturalTruth(value) ==
    CASE value.t = "str"   -> Len(value.s) > 0
      [] value.t = "int"   -> value.n # 0
      [] value.t = "float" -> value.num # 0
      [] value.t = "bool"  -> value.b
      [] value.t = "none"  -> FALSE
      [] value.t = "list"  -> Len(value.l) > 0
      [] value.t = "dict"  -> Len(value.d) > 0

\* the value of the whole condition taken as an expression
AsExpression ==
    EvaluateExpression(cond.condition, [input |-> cond.input, steps |-> <<>>], Clock[now])

\* C31: a condition without a comparison operator evaluates to true when it
\* is the literal true in any letter case and to false when it is the
\* literal false, whatever the inputs; otherwise it is evaluated as an
\* expression and the result is the truthiness of the value: a text is true
\* exactly when it is not empty (a missing input and an unknown expression
\* give the empty text), any other value by Python's bool().
C31_TruthyCheck ==
    (cond.evaluated /\ ~HasOperator(cond.condition)) =>
        /\ ~cond.split.found
        /\ cond.value =
               IF IsLiteral(cond.condition, S_true) THEN TRUE
               ELSE IF IsLiteral(cond.condition, S_false) THEN FALSE
               ELSE NaturalTruth(AsExpression)

\* the input v holds the text "false": the condition input.v is true
C31_Witness ==
    /\ cond.evaluated
    /\ cond.condition = S_input \o S_v
    /\ cond.input = << <<S_v, PyStr(S_false)>> >>
    /\ cond.value

\* the time.sleep of step i at position k of the trace was reached through
\* the gate and the condition: the gate event before it admitted the step
\* and the condition, when the step has one, held
AdmittedBefore(f, i, k) ==
    /\ \E g \in Events(f, "gate", i) : g < k /\ ~GateDenied(f, g)
    /\ \/ StepOf(f, i).if = <<>>
       \/ \E c \in Events(f, "cond", i) : c < k /\ ConditionHolds(f, i, f.trace[c].at)

\* what the trace of one run says about its sleeps
WaitsOnlyWhenAdmitted(f) ==
    \A i \in 0..(Len(f.workflow.steps) - 1) :
        /\ \A k \in Events(f, "sleep", i) :
               StepOf(f, i).delay > 0 /\ AdmittedBefore(f, i, k)
        /\ \A c \in Events(f, "call", i) :
               /\ \A k \in Events(f, "sleep", i) : k < c
               /\ ((StepOf(f, i).delay > 0) => (Events(f, "sleep", i) # {}))
        /\ ((f.pc = "delay" /\ f.i = i) =>
               (Events(f, "sleep", i) = {} /\ Events(f, "call", i) = {}))

\* while run t is inside time.sleep nothing of the run changes; the sleep
\* returns into the same step, with the results and the context as they were
NothingDuringWait(t) ==
    (run[t].pc = "delay") =>
        \/ run'[t] = run[t]
        \/ run'[t] = [run[t] EXCEPT !.pc = "invoke",
                                   !.trace = Append(@, [ev |-> "sleep", step |-> run[t].i])]

\* C32: the delay of a step is waited only when the gate admitted the step,
\* its condition (if any) held and delay > 0; the wait comes before the
\* parameters are substituted and the action is called (the call of the
\* step follows its sleep, and a called step with a positive delay has
\* slept); during the wait the run does nothing else: its step index, its
\* results and its context stay as they are until the sleep returns.
C32_DelayOnlyWhenAdmitted ==
    /\ [](\A t \in DOMAIN run : (run[t].pc # "idle") => WaitsOnlyWhenAdmitted(run[t]))
    /\ [][\A t \in DOMAIN run : NothingDuringWait(t)]_vars

\* a run skipped a step that has a delay without waiting, waited for the
\* next one and called it, and called a step with a negative delay without
\* waiting
C32_Witness ==
    \E t \in DOMAIN run :
        LET f == run[t]
        IN  /\ f.pc = "done"
            /\ Len(f.workflow.steps) = 3
            /\ StepOf(f, 0).delay > 0 /\ Events(f, "sleep", 0) = {} /\ Events(f, "call", 0) = {}
            /\ StepOf(f, 1).delay > 0 /\ Events(f, "sleep", 1) # {} /\ Events(f, "call", 1) # {}
            /\ StepOf(f, 2).delay < 0 /\ Events(f, "sleep", 2) = {} /\ Events(f, "call", 2) # {}

\* no timer task is pending: every task the manager created is done
NoTimerPending == \A id \in 1..Len(tasks) : Done(tasks[id])

\* C33: whenever the pomodoro is inactive no timer task is pending, and on
\* an inactive pomodoro no step other than the return of a start changes the
\* phase or the counter or runs a completion callback; under every
\* interleaving of start, stop, skip and timer expiry.
C33_NoTimerWhileInactive ==
    /\ [](~state.active => NoTimerPending)
    /\ [][QuietWhileStopped]_vars

\* the timer tasks that are not done
PendingTimers == { id \in 1..Len(tasks) : ~Done(tasks[id]) }

\* C34: at every moment at most one timer task is pending, and a pending
\* timer task is the one _timer_task refers to; under every interleaving of
\* start, stop, skip and timer expiry.
C34_OneTimer ==
    /\ Cardinality(PendingTimers) <= 1
    /\ \A id \in PendingTimers : timer_task = id

\* a work phase ends in this step: the phase goes from work to break
WorkPhaseEnds == state.session_type = "work" /\ state'.session_type = "break"

\* a break ends in this step: the phase goes from break to work, or the
\* pomodoro is reset during a break
BreakEnds == state.session_type = "break" /\ state' # state

\* the step is the expiry handling of a timer, or the part of a skip that
\* moves the phase on
EndedByExpiryOrSkip ==
    \/ \E id \in 1..Len(tasks) : Expiry(id)
    \/ \E k \in 1..Len(calls) : Ends("skip", k) /\ ~IsError(k)

CountsWorkPhases ==
    /\ (WorkPhaseEnds =>
           (EndedByExpiryOrSkip /\ state'.sessions_completed = state.sessions_completed + 1))
    /\ ((state'.sessions_completed > state.sessions_completed) => WorkPhaseEnds)
    /\ (BreakEnds => (state'.sessions_completed <= state.sessions_completed))

\* C35: sessions_completed increases by exactly one in every step that takes
\* the phase from work to break, which is the expiry handling of a timer or
\* a skip; it increases in no other step, and not when a break ends; under
\* every interleaving of start, stop, skip and timer expiry.
C35_CountsWorkPhases == [][CountsWorkPhases]_vars

\* a skip arrived when the work timer had expired: the expiry handling ran
\* the session callback and counted the phase, and the skip then ended the
\* break without counting
C35_Witness ==
    \E id \in 1..Len(tasks), k \in 1..Len(calls) :
        /\ tasks[id].callback = "session"
        /\ calls[k].op = "skip"
        /\ calls[k].pc = "returned"
        /\ calls[k].result.t = "status"
        /\ calls[k].result.status.session_type = "work"
        /\ calls[k].result.status.sessions_completed = 1
        /\ state.sessions_completed = 1
        /\ \A j \in 1..Len(calls) : calls[j].op \in {"start", "skip"} /\ (j # k => calls[j].op = "start")

\* the record a reference steps[n] of step i resolves against: the outcome
\* of step n if n < i, the empty mapping otherwise
OutcomeSeen(f, i, n) == IF n < i THEN f.context.steps[n + 1] ELSE <<>>

\* step n of the run was skipped
WasSkipped(f, n) == f.results[n + 1].status = "skipped"

\* the parameters step i was called with, if it refers to step n
ParamsSeen(f, i, n) ==
    \A c \in Events(f, "call", i) :
        (StepOf(f, i) = ParamRefStep(n)) =>
            /\ Get(f.trace[c].params, S_title, PyNone)
                   = PyStr(PyStrOf(PyDict(OutcomeSeen(f, i, n))))
            /\ Get(f.trace[c].params, S_message, PyNone)
                   = Get(OutcomeSeen(f, i, n), S_text, EmptyStr)
            /\ ((n >= i) =>
                   (/\ Get(f.trace[c].params, S_title, PyNone) = PyStr(<<"{", "}">>)
                    /\ Get(f.trace[c].params, S_message, PyNone) = EmptyStr))
            /\ ((n < i /\ WasSkipped(f, n)) =>
                   (/\ OutcomeSeen(f, i, n) = SkipMarker
                    /\ Get(f.trace[c].params, S_message, PyNone) = EmptyStr))

\* what the condition steps[n].success of step i gave: it holds exactly
\* when step n came before and was executed
ConditionSeen(f, i, n) ==
    (StepOf(f, i) = CondRefStep(n) /\ Events(f, "cond", i) # {}) =>
        IF n < i /\ ~WasSkipped(f, n)
        THEN (Len(f.results) > i) => (f.results[i + 1].status = "ok")
        ELSE /\ Len(f.results) > i
             /\ f.results[i + 1].status = "skipped"
             /\ f.results[i + 1].reason = [why |-> "condition not met"]
             /\ Events(f, "call", i) = {}

\* C36: the parameters and the condition of step i see the outcomes of the
\* steps 0..i-1 only: context["steps"] holds one record per earlier step, a
\* reference steps[n].field with n >= i gives the empty string and steps[n]
\* the empty mapping, and a reference to an earlier skipped step is resolved
\* against the record {"skipped": True}, in which the output fields are
\* missing (so steps[n].text is empty and the condition steps[n].success is
\* not met).
C36_SeesEarlierOutcomesOnly ==
    \A t \in DOMAIN run :
        LET f == run[t]
        IN  (f.pc \in {"gate", "delay", "invoke", "done"}) =>
                /\ Len(f.context.steps) = Len(f.results)
                /\ ((f.pc # "done") => (Len(f.context.steps) = f.i))
                /\ \A i \in 0..f.i, n \in 0..(MaxSteps - 1) :
                       ParamsSeen(f, i, n) /\ ConditionSeen(f, i, n)

\* the window step was skipped, the next step referred to it and was called
\* with an empty message and the skip marker, and the last step referred to
\* itself and was called with an empty message and the empty mapping
C36_Witness ==
    \E t \in DOMAIN run :
        LET f == run[t]
        IN  /\ f.pc = "done"
            /\ f.workflow.steps = <<WindowStep, ParamRefStep(0), ParamRefStep(2)>>
            /\ WasSkipped(f, 0)
            /\ \E c \in Events(f, "call", 1) :
                   /\ Get(f.trace[c].params, S_message, PyNone) = EmptyStr
                   /\ Get(f.trace[c].params, S_title, PyNone) = PyStr(PyStrOf(PyDict(SkipMarker)))
            /\ \E c \in Events(f, "call", 2) :
                   /\ Get(f.trace[c].params, S_message, PyNone) = EmptyStr
                   /\ Get(f.trace[c].params, S_title, PyNone) = PyStr(<<"{", "}">>)

\* run t is inside the loop over its steps
InProgress(t) == run[t].pc \in {"gate", "delay", "invoke"}

\* the step is one of run t
RunMoves(t) == run'[t] # run[t]

\* run t starts in this step with the definition the store holds now
StartsWithStored(t) ==
    (~InProgress(t) /\ RunMoves(t) /\ run'[t].name \in DOMAIN StoreView) =>
        run'[t].workflow = Loaded(StoreView[run'[t].name])

\* the calls run t has made are those of the steps of the definition it
\* holds, with the parameters that definition declares, substituted against
\* the run's own context
CallsOfDefinition(f) ==
    \A k \in 1..Len(f.trace) :
        (f.trace[k].ev = "call") =>
            LET i == f.trace[k].step
                step == f.workflow.steps[i + 1]
                seen == [input |-> f.context.input, steps |-> Take(f.context.steps, i)]
            IN  /\ f.trace[k].action = step.action
                /\ f.trace[k].params = SubstituteVariables(PyDict(step.params), seen, Clock[now]).d

\* C37: a run executes the definition it loaded when it started: it starts
\* with what the store holds then, and whatever create_workflow or
\* delete_workflow does to the same name while the run is in progress, the
\* definition the run holds stays the same and the actions it calls and
\* their parameters are those of that definition; no step of a run changes
\* the workflows the store holds (a run leaves an existing file as it is).
C37_RunKeepsItsDefinition ==
    /\ [][\A t \in DOMAIN run :
              /\ StartsWithStored(t)
              /\ (InProgress(t) => (run'[t].workflow = run[t].workflow))
              /\ (RunMoves(t) =>
                     (/\ LoadWorkflows(file', example') = LoadWorkflows(file, example)
                      /\ (file.exists => (file' = file))))]_vars
    /\ [](\A t \in DOMAIN run : (run[t].pc # "idle") => CallsOfDefinition(run[t]))

\* the workflow was deleted while the run was in progress (the run found it
\* when it started), and the run went through all the three steps of the
\* definition it had loaded
C37_Witness ==
    \E t \in DOMAIN run :
        LET f == run[t]
        IN  /\ f.pc = "done"
            /\ f.workflow = Loaded(SnapshotBody)
            /\ Len(f.results) = 3
            /\ Events(f, "call", 2) # {}
            /\ Len(log) = 1
            /\ log[1].op = "delete" /\ log[1].result.deleted
            /\ "morning" \notin DOMAIN StoreView

\* the action of step i is not in the registry
Unregistered(f, i) == StepOf(f, i).action \notin DOMAIN actions

\* the gate or the condition turned step i away
TurnedAway(f, i) ==
    \/ \E g \in Events(f, "gate", i) : GateDenied(f, g)
    \/ \E c \in Events(f, "cond", i) : ~ConditionHolds(f, i, f.trace[c].at)

\* the run failed at step i because its action is unknown
AbortedAt(f, i) ==
    /\ f.pc = "failed"
    /\ f.error = [kind |-> "unknown action", step |-> i, action |-> StepOf(f, i).action]

\* C38: for a step whose action is not in the registry: when the gate or
\* the condition skips it, the run records it as skipped (with its marker in
\* the context), does not abort at it and goes on to the next step; the run
\* aborts with the unknown-action error at such a step exactly when it is
\* admitted, and never calls it.
C38_UnknownActionOnlyWhenAdmitted ==
    \A t \in DOMAIN run :
        LET f == run[t]
        IN  (f.pc # "idle") =>
                \A i \in 0..(Len(f.workflow.steps) - 1) :
                    (Unregistered(f, i) /\ Events(f, "gate", i) # {}) =>
                        /\ Events(f, "call", i) = {}
                        /\ IF TurnedAway(f, i)
                           THEN /\ ~AbortedAt(f, i)
                                /\ Len(f.results) > i
                                /\ f.results[i + 1].status = "skipped"
                                /\ f.context.steps[i + 1] = SkipMarker
                                /\ (f.pc = "done" \/ f.i > i \/ f.pc = "failed")
                                /\ ((f.pc = "failed") => (f.error.step > i))
                           ELSE /\ Len(f.results) <= i
                                /\ f.i = i
                                /\ (f.pc \in {"delay", "invoke"} \/ AbortedAt(f, i))

\* open-app is not registered: the run skipped the window step and the
\* guarded step that would open an app, and went on to call notify
C38_Witness ==
    \E t \in DOMAIN run :
        LET f == run[t]
        IN  /\ f.pc = "done"
            /\ f.workflow.steps = <<WindowWaitStep, GuardedOpenStep, WaitStep>>
            /\ Unregistered(f, 0) /\ Unregistered(f, 1)
            /\ f.results[1].status = "skipped" /\ f.results[2].status = "skipped"
            /\ f.results[3].status = "ok"

\* the events of step i in the trace of f, before position k
Earlier(f, kind, i, k) == \A e \in Events(f, kind, i) : e < k

\* what the trace of one run says about the gate and the condition of its
\* steps: the gate once per step the loop has reached, the condition once
\* when the gate admitted a step that has one (and not otherwise), both
\* before the sleep and the call of the step
EvaluatedOnceBeforeDelay(f) ==
    \A i \in 0..(Len(f.workflow.steps) - 1) :
        /\ Cardinality(Events(f, "gate", i)) = (IF i < f.i \/ (i = f.i /\ f.pc # "gate") THEN 1 ELSE 0)
        /\ Cardinality(Events(f, "cond", i)) =
               (IF /\ StepOf(f, i).if # <<>>
                   /\ \E g \in Events(f, "gate", i) : ~GateDenied(f, g)
                THEN 1 ELSE 0)
        /\ \A g \in Events(f, "gate", i) : Earlier(f, "cond", i, g + 2)
        /\ \A k \in Events(f, "sleep", i) \cup Events(f, "call", i) :
               Earlier(f, "gate", i, k) /\ Earlier(f, "cond", i, k)

\* an admitted step goes on whatever the clock reads: leaving the sleep or
\* the call, run t records no skip and no gate or condition event, and the
\* time token of a call reads the clock of the call
GoesOnAfterDelay(t) ==
    LET f == run[t]
        g == run'[t]
        step == StepOf(f, f.i)
        last == g.trace[Len(g.trace)]
    IN  (f.pc \in {"delay", "invoke"} /\ g # f) =>
            /\ \A k \in 1..Len(g.results) : (g.results[k].step = f.i) => (g.results[k].status = "ok")
            /\ Events(g, "gate", f.i) = Events(f, "gate", f.i)
            /\ Events(g, "cond", f.i) = Events(f, "cond", f.i)
            /\ ((f.pc = "invoke" /\ step.action \in DOMAIN actions) =>
                   (/\ Len(g.trace) = Len(f.trace) + 1
                    /\ last.ev = "call" /\ last.step = f.i
                    /\ ((step = WaitStep) =>
                           (Get(last.params, S_message, PyNone)
                                = PyStr(<<"a", "t", " ">> \o StrfHMS(Clock[now]))))
                    /\ ((step = WindowWaitStep) =>
                           (Get(last.params, S_app, PyNone) = PyStr(StrfHMS(Clock[now]))))))

\* C39: the gate of a step is evaluated once and its condition once (when
\* the gate admitted a step that has one), both before the delay, and
\* neither is evaluated again after it: an admitted step is called after
\* the delay whatever the clock reads by then (it is not skipped), and the
\* time token of its parameters is resolved at the call, after the delay.
C39_AdmittedOnceBeforeDelay ==
    /\ [](\A t \in DOMAIN run : (run[t].pc \in {"gate", "delay", "invoke", "done", "failed"}
                                    /\ run[t].workflow.steps # <<>>)
                                 => EvaluatedOnceBeforeDelay(run[t]))
    /\ [][\A t \in DOMAIN run : GoesOnAfterDelay(t)]_vars

\* the window step was admitted at 10:00:00, the clock moved on during its
\* delay, and it was called on the next day at 23:00:30, outside its window,
\* with that time in its parameter
C39_Witness ==
    \E t \in DOMAIN run :
        LET f == run[t]
        IN  \E g \in Events(f, "gate", 0), s \in Events(f, "sleep", 0), c \in Events(f, "call", 0) :
                /\ StepOf(f, 0) = WindowWaitStep
                /\ f.trace[g].at = 2
                /\ g < s /\ s < c
                /\ now = 3
                /\ ~Admits(T1000, T2300, <<>>, Clock[now])
                /\ Get(f.trace[c].params, S_app, PyNone) = PyStr(StrfHMS(Clock[3]))

====
